---- MODULE Spec2Model ----
(***************************************************************************)
(* Nutrition ledger, daily aggregation and meal-recommendation cache of    *)
(* the accounts app (accounts/views.py, accounts/models.py,                *)
(* accounts/ai_recommender.py).                                            *)
(*                                                                         *)
(* Python floats are modelled as exact rationals <<n, d>> (d > 0, lowest   *)
(* terms); IntegerField columns store int(value), i.e. the value truncated *)
(* toward zero.  Dates and timestamps are day numbers.                     *)
(***************************************************************************)
EXTENDS Integers, Sequences, FiniteSets, TLC

VARIABLES
    entries,      \* MealEntry table: set of rows
    summaries,    \* DailyNutritionSummary table: set of rows
    profiles,     \* user -> UserProfile row, or NoProfile
    nextId,       \* next auto-increment primary key of MealEntry
    now,          \* clock, in days
    running,      \* history: per (user, date) sum of add deltas minus remove deltas
    last,         \* the last completed request and its response
    nops,         \* number of requests served
    procs,        \* in-flight add_entry requests (interleaved executions)
    recs,         \* MealRecommendation table: set of rows
    gen_calls,    \* slots for which the last read called the generator
    weekly        \* WeeklyMealRecommendation table: set of rows

vars == <<entries, summaries, profiles, nextId, now, running, last,
          nops, procs, recs, gen_calls, weekly>>

----------------------------------------------------------------------------
(* Bounds *)

MaxOps == 4
MaxReads == 3
MaxNow == 10

----------------------------------------------------------------------------
(* Exact rational arithmetic standing for Python float arithmetic *)

\* A missing (None) number is the empty tuple; a missing string is "None"
NoneNum == <<>>
NoneStr == "None"

Abs(x) == IF x < 0 THEN -x ELSE x

RECURSIVE GCD(_, _)
GCD(a, b) == IF b = 0 THEN a ELSE GCD(b, a % b)

Rat(n, d) ==
    LET g == GCD(Abs(n), Abs(d))
        s == IF d < 0 THEN -1 ELSE 1
    IN  IF n = 0 THEN <<0, 1>> ELSE <<(s * n) \div g, (s * d) \div g>>

R(n) == <<n, 1>>

RAdd(a, b) == Rat(a[1] * b[2] + b[1] * a[2], a[2] * b[2])
RSub(a, b) == Rat(a[1] * b[2] - b[1] * a[2], a[2] * b[2])
RMul(a, b) == Rat(a[1] * b[1], a[2] * b[2])
RDiv(a, b) == Rat(a[1] * b[2], a[2] * b[1])
RLt(a, b) == a[1] * b[2] < b[1] * a[2]
RLe(a, b) == a[1] * b[2] <= b[1] * a[2]
RMax(a, b) == IF RLt(a, b) THEN b ELSE a

\* int(x): truncation toward zero
PyInt(a) == IF a[1] >= 0 THEN a[1] \div a[2] ELSE -((-a[1]) \div a[2])

\* round(x): nearest integer, ties to even
PyRound(a) ==
    LET f == a[1] \div a[2]
        twice == 2 * (a[1] - f * a[2])
    IN  IF twice < a[2] THEN f
        ELSE IF twice > a[2] THEN f + 1
        ELSE IF f % 2 = 0 THEN f ELSE f + 1

\* round(x, 1)
PyRound1(a) == Rat(PyRound(RMul(a, R(10))), 10)

----------------------------------------------------------------------------
(* Data *)

Users == {"u1", "u2"}
Dates == {1, 2}
meal_types == <<"Breakfast", "Brunch", "Lunch", "Evening Snacks", "Dinner">>
SlotNames == {meal_types[i] : i \in 1..Len(meal_types)}

NoProfile == [exists |-> FALSE]

\* UserProfile rows the model starts from: the row ProfileOverviewView.get
\* creates before onboarding (every nullable column None), and completed ones
EmptyProfile ==
    [exists |-> TRUE, name |-> "", age |-> NoneNum, weight |-> NoneNum,
     weight_unit |-> "kg", height_cm |-> NoneNum, gender |-> NoneStr,
     goal |-> NoneStr, diet_preference |-> NoneStr,
     health_conditions |-> {}, allergies |-> {}]

MaleProfile ==
    [exists |-> TRUE, name |-> "Ravi", age |-> R(30), weight |-> R(70),
     weight_unit |-> "kg", height_cm |-> R(175), gender |-> "Male",
     goal |-> "Weight Loss", diet_preference |-> "Non-Veg",
     health_conditions |-> {}, allergies |-> {}]

Falsy(x) == x = NoneNum \/ x = R(0)

----------------------------------------------------------------------------
(* TargetCalculator: calculate_nutrition_targets *)

TargetsError == [error |-> TRUE]

\* the same lookup with Thyroid Issues tested first
protein_multiplier_thyroid_first(health_conditions) ==
    IF "Thyroid Issues" \in health_conditions THEN Rat(105, 100)
    ELSE IF "Diabetes" \in health_conditions THEN Rat(11, 10)
    ELSE IF "High Blood Pressure" \in health_conditions THEN Rat(95, 100)
    ELSE R(1)

\* lines 75-83
protein_multiplier(health_conditions) ==
    IF "Diabetes" \in health_conditions THEN Rat(11, 10)
    ELSE IF "High Blood Pressure" \in health_conditions THEN Rat(95, 100)
    ELSE IF "Thyroid Issues" \in health_conditions THEN Rat(105, 100)
    ELSE R(1)

\* a sedentary activity multiplier
multiplier_sedentary == Rat(12, 10)

\* line 67: the activity multiplier
multiplier == Rat(155, 100)

calculate_nutrition_targets(profile) ==
    IF ~profile.exists THEN
        [error |-> FALSE, calories_target |-> R(2000), protein_target |-> R(150),
         carbs_target |-> R(200), fats_target |-> R(65)]
    ELSE IF profile.weight_unit = "kg" /\ profile.weight = NoneNum THEN
        \* 10 * None raises TypeError
        TargetsError
    ELSE
    LET age == IF Falsy(profile.age) THEN R(30) ELSE profile.age
        weight_kg == IF profile.weight_unit = "kg" THEN profile.weight
                     ELSE IF Falsy(profile.weight) THEN R(70)
                     ELSE RDiv(profile.weight, Rat(2205, 1000))
        height_cm == IF Falsy(profile.height_cm) THEN R(170) ELSE profile.height_cm
        gender == IF profile.gender \in {NoneStr, ""} THEN "Male" ELSE profile.gender
        diet_preference == IF profile.diet_preference \in {NoneStr, ""}
                           THEN "Non-Veg" ELSE profile.diet_preference
        base == RSub(RAdd(RMul(R(10), weight_kg), RMul(Rat(625, 100), height_cm)),
                     RMul(R(5), age))
        bmr == IF gender = "Male" THEN RAdd(base, R(5)) ELSE RSub(base, R(161))
        tdee == RMul(bmr, multiplier)
        calories_target == R(PyInt(tdee))
        protein0 == RMul(RMul(weight_kg, Rat(16, 10)),
                         protein_multiplier(profile.health_conditions))
        fats0 == RMul(weight_kg, Rat(9, 10))
        carbs_kcal == RMax(RSub(RSub(calories_target, RMul(protein0, R(4))),
                                RMul(fats0, R(9))), R(0))
        carbs0 == RDiv(carbs_kcal, R(4))
        protein_target == IF diet_preference = "High Protein" THEN RMul(protein0, Rat(125, 100))
                          ELSE IF diet_preference = "Vegan" THEN RMul(protein0, Rat(115, 100))
                          ELSE protein0
        carbs_target == IF diet_preference = "High Protein"
                            THEN RMax(RMul(carbs0, Rat(85, 100)), R(0))
                        ELSE IF diet_preference = "Keto / Low-Carb" THEN RMul(carbs0, Rat(1, 2))
                        ELSE carbs0
        fats_target == IF diet_preference = "Keto / Low-Carb" THEN RMul(fats0, Rat(12, 10))
                       ELSE fats0
    IN  [error |-> FALSE, calories_target |-> calories_target,
         protein_target |-> PyRound1(protein_target),
         carbs_target |-> PyRound1(carbs_target),
         fats_target |-> PyRound1(fats_target)]


----------------------------------------------------------------------------
(* MealLedger and DailyAggregator tables *)

Macros == {"calories", "protein_g", "carbs_g", "fats_g"}

ZeroMacros == [m \in Macros |-> R(0)]
MAdd(a, b) == [m \in Macros |-> RAdd(a[m], b[m])]
MSub(a, b) == [m \in Macros |-> RSub(a[m], b[m])]
MScale(a, q) == [m \in Macros |-> RMul(a[m], q)]
MDiv(a, q) == [m \in Macros |-> RDiv(a[m], q)]

\* the macro totals stored in a MealEntry row
EntryMacros(e) == [m \in Macros |-> e[m]]

NoRow == [id |-> 0]

\* MealEntry.objects.filter(user, date, meal_type, name)
Matching(rows, user, date, meal_type, name) ==
    {e \in rows : e.user = user /\ e.date = date
                  /\ e.meal_type = meal_type /\ e.name = name}

\* DailyNutritionSummary row of (user, date); the pair is unique_together
SummaryOf(rows, user, date) == {s \in rows : s.user = user /\ s.date = date}

\* model defaults of a row created with defaults={"calories_target": 0}
NewSummary(user, date) ==
    [user |-> user, date |-> date,
     calories_target |-> R(0), calories_consumed |-> R(0),
     protein_g |-> R(0), protein_target |-> R(0),
     carbs_g |-> R(0), carbs_target |-> R(0),
     fats_g |-> R(0), fats_target |-> R(0)]

\* IntegerField.get_prep_value: the column stores int(value)
IntegerField(x) == R(PyInt(x))

\* the consumed columns of a summary row
Consumed(s) ==
    [calories |-> s.calories_consumed, protein_g |-> s.protein_g,
     carbs_g |-> s.carbs_g, fats_g |-> s.fats_g]

\* summary.save() after assigning the consumed fields the values in c
SaveConsumed(s, c) ==
    [s EXCEPT !.calories_consumed = IntegerField(c.calories),
              !.protein_g = c.protein_g,
              !.carbs_g = c.carbs_g,
              !.fats_g = c.fats_g]

\* summary.save() after assigning the target fields from targets t
SaveTargets(s, t) ==
    [s EXCEPT !.calories_target = IntegerField(t.calories_target),
              !.protein_target = t.protein_target,
              !.carbs_target = t.carbs_target,
              !.fats_target = t.fats_target]

\* DailyNutritionSummary.objects.get_or_create(user, date, defaults)
GetOrCreateSummary(rows, user, date, defaults) ==
    IF SummaryOf(rows, user, date) = {} THEN defaults
    ELSE CHOOSE s \in SummaryOf(rows, user, date) : TRUE

PutSummary(rows, s) == (rows \ SummaryOf(rows, s.user, s.date)) \cup {s}

RECURSIVE MSum(_)
MSum(rows) ==
    IF rows = {} THEN ZeroMacros
    ELSE LET e == CHOOSE x \in rows : TRUE
         IN  MAdd(EntryMacros(e), MSum(rows \ {e}))

\* sum over MealEntry.objects.filter(user, date, eaten=True)
EatenSum(rows, user, date) ==
    MSum({e \in rows : e.user = user /\ e.date = date /\ e.eaten})


----------------------------------------------------------------------------
(* Requests *)

AddRequest(date, meal_type, name, serving, cal, prot, carbs, fats, quantity) ==
    [date_kind |-> "valid", date |-> date, meal_type |-> meal_type, name |-> name,
     serving |-> serving, calories |-> cal, protein_g |-> prot, carbs_g |-> carbs,
     fats_g |-> fats, quantity |-> quantity]

\* request bodies of POST add-meal the model draws from
AddRequests ==
    { AddRequest(2, "Breakfast", "idli", "2 pieces", R(100), R(4), R(20), R(1), R(1)),
      AddRequest(2, "Breakfast", "idli", "", R(101), R(5), R(20), R(1), R(2)),
      AddRequest(2, "Lunch", "dal", "", Rat(151, 2), Rat(9, 2), R(12), R(2), R(1)),
      AddRequest(1, "Breakfast", "idli", "", R(100), R(4), R(20), R(1), Rat(3, 2)),
      [AddRequest(2, "Lunch", "dal", "", R(0), R(0), R(0), R(0), R(1))
         EXCEPT !.calories = NoneNum],
      [AddRequest(0, "Lunch", "dal", "", R(75), R(0), R(0), R(0), R(1))
         EXCEPT !.date_kind = "invalid"] }

\* requests issued by each user
RequestsOf(user) ==
    IF user = "u1" THEN AddRequests
    ELSE {r \in AddRequests : r.date = 2 /\ r.name = "idli" /\ r.quantity = R(1)}

\* per-serving macros of the request body (one_cal, one_prot, one_carbs, one_fats)
OneServing(data) == [m \in Macros |-> data[m]]

\* the amount one add request contributes to entry and summary
AddDelta(data) == MScale(OneServing(data), data.quantity)

\* line 1332: required fields present
RequiredPresent(data) ==
    /\ data.date_kind # "missing"
    /\ data.meal_type \notin {NoneStr, ""}
    /\ data.name \notin {NoneStr, ""}
    /\ data.calories # NoneNum

\* the row get_or_create inserts from defaults
NewEntry(id, user, data) ==
    [id |-> id, user |-> user, date |-> data.date, meal_type |-> data.meal_type,
     name |-> data.name, serving |-> data.serving, quantity |-> data.quantity,
     calories |-> AddDelta(data).calories, protein_g |-> AddDelta(data).protein_g,
     carbs_g |-> AddDelta(data).carbs_g, fats_g |-> AddDelta(data).fats_g,
     eaten |-> FALSE]

\* a variant of the update that re-derives the per-unit macros from the
\* stored row instead of taking them from the request
AccumulateRederived(entry, data) ==
    [entry EXCEPT !.quantity = RAdd(@, data.quantity),
                  !.calories = RAdd(@, RMul(RDiv(@, entry.quantity), data.quantity)),
                  !.protein_g = RAdd(@, RMul(RDiv(@, entry.quantity), data.quantity)),
                  !.carbs_g = RAdd(@, RMul(RDiv(@, entry.quantity), data.quantity)),
                  !.fats_g = RAdd(@, RMul(RDiv(@, entry.quantity), data.quantity)),
                  !.serving = IF @ = "" THEN data.serving ELSE @]

\* the in-memory update of an existing row (if not created)
Accumulate(entry, data) ==
    [entry EXCEPT !.quantity = RAdd(@, data.quantity),
                  !.calories = RAdd(@, AddDelta(data).calories),
                  !.protein_g = RAdd(@, AddDelta(data).protein_g),
                  !.carbs_g = RAdd(@, AddDelta(data).carbs_g),
                  !.fats_g = RAdd(@, AddDelta(data).fats_g),
                  !.serving = IF @ = "" THEN data.serving ELSE @]

\* a lookup by primary key alone, whoever owns the row
GetEntryOfAnyUser(rows, user, entry_id) == {e \in rows : e.id = entry_id}

\* MealEntry.objects.get(id=entry_id, user=user): empty stands for DoesNotExist
GetEntry(rows, user, entry_id) == {e \in rows : e.id = entry_id /\ e.user = user}

\* entry.save(): UPDATE of the row with this primary key (no row: INSERT)
SaveEntry(rows, entry) == {e \in rows : e.id # entry.id} \cup {entry}

Response(op, user, status, req, id, before, sum_before) ==
    [op |-> op, user |-> user, status |-> status, req |-> req, id |-> id,
     before |-> before, sum_before |-> sum_before, body |-> <<>>]

NoResponse == Response("none", "", 0, <<>>, 0, {}, {})


----------------------------------------------------------------------------
(* Handlers, one request at a time *)

Served(resp) ==
    /\ last' = resp
    /\ nops' = nops + 1

\* AddMealEntryView.post
AddMealEntry_post(user, data) ==
    /\ nops < MaxOps
    /\ UNCHANGED <<profiles, now, procs, recs, gen_calls, weekly>>
    /\ IF ~RequiredPresent(data) \/ data.date_kind = "invalid" THEN
           /\ Served(Response("add", user, 400, data, 0, {}, {}))
           /\ UNCHANGED <<entries, summaries, nextId, running>>
       ELSE IF data.date_kind = "nonstring" THEN
           \* strptime raises TypeError, which the except ValueError lets through
           /\ Served(Response("add", user, 500, data, 0, {}, {}))
           /\ UNCHANGED <<entries, summaries, nextId, running>>
       ELSE
       LET found == Matching(entries, user, data.date, data.meal_type, data.name)
           sum_before == SummaryOf(summaries, user, data.date)
       IN  IF Cardinality(found) > 1 THEN
               \* get_or_create raises MultipleObjectsReturned
               /\ Served(Response("add", user, 500, data, 0, found, sum_before))
               /\ UNCHANGED <<entries, summaries, nextId, running>>
           ELSE
           LET created == found = {}
               entry == IF created THEN NewEntry(nextId, user, data)
                        ELSE Accumulate(CHOOSE e \in found : TRUE, data)
               summary == GetOrCreateSummary(summaries, user, data.date,
                                             NewSummary(user, data.date))
           IN  /\ entries' = SaveEntry(entries, entry)
               /\ nextId' = IF created THEN nextId + 1 ELSE nextId
               /\ summaries' = PutSummary(summaries,
                                  SaveConsumed(summary, MAdd(Consumed(summary), AddDelta(data))))
               /\ running' = [running EXCEPT ![user][data.date] = MAdd(@, AddDelta(data))]
               /\ Served(Response("add", user, 200, data, entry.id, found, sum_before))

\* a guard that lets a quantity of exactly 0 through
QuantityNegative(entry) == RLt(entry.quantity, R(0))

\* line 1450: the safety guard
QuantityGuard(entry) == RLe(entry.quantity, R(0))

\* RemoveMealEntryView.delete
RemoveMealEntry_delete(user, entry_id) ==
    /\ nops < MaxOps
    /\ UNCHANGED <<profiles, now, procs, recs, gen_calls, nextId, weekly>>
    /\ LET found == GetEntry(entries, user, entry_id)
       IN  IF found = {} THEN
               /\ Served(Response("remove", user, 404, <<entry_id>>, entry_id, {}, {}))
               /\ UNCHANGED <<entries, summaries, running>>
           ELSE
           LET entry == CHOOSE e \in found : TRUE
               sum_before == SummaryOf(summaries, user, entry.date)
               answer(code, message) ==
                   [Response("remove", user, code, <<entry_id>>, entry_id, found, sum_before)
                      EXCEPT !.body = message]
               resp == answer(200, IF RLt(R(1), entry.quantity) THEN "one serving removed"
                                   ELSE "meal entry deleted, no servings left")
           IN  IF QuantityGuard(entry) THEN
                   /\ entries' = entries \ found
                   /\ UNCHANGED <<summaries, running>>
                   /\ Served(answer(200, "Entry removed"))
               ELSE IF entry.quantity = R(0) THEN
                   \* entry.calories / entry.quantity raises ZeroDivisionError
                   /\ UNCHANGED <<entries, summaries, running>>
                   /\ Served(answer(500, ""))
               ELSE
               LET one == MDiv(EntryMacros(entry), entry.quantity)
                   summary == GetOrCreateSummary(summaries, user, entry.date,
                                                 NewSummary(user, entry.date))
               IN  IF RLt(R(1), entry.quantity) THEN
                       /\ entries' = SaveEntry(entries,
                              [entry EXCEPT !.quantity = RSub(@, R(1)),
                                            !.calories = RSub(@, one.calories),
                                            !.protein_g = RSub(@, one.protein_g),
                                            !.carbs_g = RSub(@, one.carbs_g),
                                            !.fats_g = RSub(@, one.fats_g)])
                       /\ summaries' = PutSummary(summaries,
                              SaveConsumed(summary, MSub(Consumed(summary), one)))
                       /\ running' = [running EXCEPT ![user][entry.date] = MSub(@, one)]
                       /\ Served(resp)
                   ELSE
                       \* quantity == 1 -> delete row
                       /\ summaries' = PutSummary(summaries,
                              SaveConsumed(summary, MSub(Consumed(summary), EntryMacros(entry))))
                       /\ entries' = entries \ found
                       /\ running' = [running EXCEPT ![user][entry.date] =
                                                         MSub(@, EntryMacros(entry))]
                       /\ Served(resp)

\* a toggle that also resets the quantity to one serving
ToggleEatenOneServing(entry) == [entry EXCEPT !.eaten = ~@, !.quantity = R(1)]

\* entry.eaten = not entry.eaten
ToggleEaten(entry) == [entry EXCEPT !.eaten = ~@]

\* ToggleMealEatenView.post: looks the entry up by id alone
ToggleMealEaten_post(user, entry_id) ==
    /\ nops < MaxOps
    /\ UNCHANGED <<profiles, now, procs, recs, gen_calls, nextId, summaries, running, weekly>>
    /\ LET found == {e \in entries : e.id = entry_id}
       IN  IF found = {} THEN
               /\ Served(Response("toggle_post", user, 404, <<entry_id>>, entry_id, {}, {}))
               /\ UNCHANGED entries
           ELSE
           LET meal_entry == CHOOSE e \in found : TRUE
           IN  /\ entries' = SaveEntry(entries, ToggleEaten(meal_entry))
               /\ Served(Response("toggle_post", user, 200, <<entry_id>>, entry_id, found,
                                  SummaryOf(summaries, meal_entry.user, meal_entry.date)))

\* ToggleMealEatenView.patch
ToggleMealEaten_patch(user, entry_id) ==
    /\ nops < MaxOps
    /\ UNCHANGED <<profiles, now, procs, recs, gen_calls, nextId, running, weekly>>
    /\ LET found == GetEntry(entries, user, entry_id)
       IN  IF found = {} THEN
               /\ Served(Response("toggle", user, 404, <<entry_id>>, entry_id, {}, {}))
               /\ UNCHANGED <<entries, summaries>>
           ELSE
           LET entry == CHOOSE e \in found : TRUE
               toggled == SaveEntry(entries, ToggleEaten(entry))
               total_consumed == EatenSum(toggled, user, entry.date)
               targets == calculate_nutrition_targets(profiles[user])
               sum_before == SummaryOf(summaries, user, entry.date)
           IN  /\ entries' = toggled
               /\ IF targets.error THEN
                      \* the exception leaves the saved flag and skips the summary
                      /\ UNCHANGED summaries
                      /\ Served(Response("toggle", user, 500, <<entry_id>>, entry_id,
                                         found, sum_before))
                  ELSE
                  LET defaults == SaveConsumed(
                                      SaveTargets(NewSummary(user, entry.date), targets),
                                      total_consumed)
                      summary == GetOrCreateSummary(summaries, user, entry.date, defaults)
                      updated == SaveConsumed(summary, total_consumed)
                  IN  /\ summaries' = PutSummary(summaries,
                             IF updated.calories_target = R(0)
                             THEN SaveTargets(updated, targets) ELSE updated)
                      /\ Served(Response("toggle", user, 200, <<entry_id>>, entry_id,
                                         found, sum_before))

\* get_pct(consumed, target)
get_pct(consumed, target) ==
    IF RLe(target, R(0)) THEN 0
    ELSE LET pct == PyRound(RMul(RDiv(consumed, target), R(100)))
         IN  IF pct < 100 THEN pct ELSE 100

\* one block of the response: consumed, target, remaining, percentage
ReportBlock(consumed, target, is_calories) ==
    IF is_calories THEN
        [consumed |-> R(PyInt(consumed)), target |-> R(PyInt(target)),
         remaining |-> RMax(R(PyInt(RSub(target, consumed))), R(0)),
         percentage |-> get_pct(consumed, target)]
    ELSE
        [consumed |-> PyRound1(consumed), target |-> PyRound1(target),
         remaining |-> PyRound1(RMax(RSub(target, consumed), R(0))),
         percentage |-> get_pct(consumed, target)]

\* DashboardTodayView.get
DashboardToday_get(user) ==
    /\ nops < MaxOps
    /\ UNCHANGED <<profiles, now, procs, recs, gen_calls, nextId, running, entries, weekly>>
    /\ LET today == now
           targets == calculate_nutrition_targets(profiles[user])
           total_consumed == EatenSum(entries, user, today)
           sum_before == SummaryOf(summaries, user, today)
       IN  IF targets.error THEN
               /\ UNCHANGED summaries
               /\ Served(Response("today", user, 500, <<today>>, 0, {}, sum_before))
           ELSE
           LET summary == GetOrCreateSummary(summaries, user, today,
                                             NewSummary(user, today))
           IN  /\ summaries' = PutSummary(summaries,
                      SaveTargets(SaveConsumed(summary, total_consumed), targets))
               \* the response reads the fields as assigned, not as stored
               /\ Served([Response("today", user, 200, <<today>>, 0, {}, sum_before)
                             EXCEPT !.body =
                    [calories |-> ReportBlock(total_consumed.calories,
                                              targets.calories_target, TRUE),
                     proteins |-> ReportBlock(total_consumed.protein_g,
                                              targets.protein_target, FALSE),
                     carbs |-> ReportBlock(total_consumed.carbs_g,
                                           targets.carbs_target, FALSE),
                     fats |-> ReportBlock(total_consumed.fats_g,
                                          targets.fats_target, FALSE)]])

----------------------------------------------------------------------------
(* One user's requests served one at a time *)

\* u1 has completed onboarding or only opened the profile page; u2 has no profile
InitProfiles ==
    {[u \in Users |-> IF u = "u1" THEN p ELSE NoProfile] : p \in {MaleProfile, EmptyProfile}}

Init ==
    /\ entries = {}
    /\ summaries = {}
    /\ profiles \in InitProfiles
    /\ nextId = 1
    /\ now = 2
    /\ running = [u \in Users |-> [d \in Dates |-> ZeroMacros]]
    /\ last = NoResponse
    /\ nops = 0
    /\ procs = <<>>
    /\ recs = {}
    /\ gen_calls = [m \in SlotNames |-> 0]
    /\ weekly = {}

Next ==
    \/ \E user \in Users : \E data \in RequestsOf(user) : AddMealEntry_post(user, data)
    \/ \E user \in Users : \E id \in 1..nextId : RemoveMealEntry_delete(user, id)
    \/ \E user \in Users : \E id \in 1..nextId : ToggleMealEaten_post(user, id)
    \/ \E user \in Users : \E id \in 1..nextId : ToggleMealEaten_patch(user, id)
    \/ \E user \in Users : DashboardToday_get(user)

Spec == Init /\ [][Next]_vars

\* add requests at the edges of the handler's input: a quantity of 0, each
\* required field missing, a date string that does not parse, and a date
\* sent as a JSON number
EdgeRequests ==
    { AddRequest(2, "Breakfast", "idli", "2 pieces", R(100), R(4), R(20), R(1), R(1)),
      AddRequest(2, "Lunch", "dal", "", Rat(151, 2), Rat(9, 2), R(12), R(2), R(2)),
      AddRequest(2, "Brunch", "tea", "", R(50), R(1), R(8), R(1), R(0)),
      [AddRequest(0, "Lunch", "dal", "", R(75), R(0), R(0), R(0), R(1))
         EXCEPT !.date_kind = "missing"],
      [AddRequest(2, "Lunch", "dal", "", R(75), R(0), R(0), R(0), R(1))
         EXCEPT !.meal_type = NoneStr],
      [AddRequest(2, "Lunch", "dal", "", R(75), R(0), R(0), R(0), R(1))
         EXCEPT !.name = ""],
      [AddRequest(2, "Lunch", "dal", "", R(0), R(0), R(0), R(0), R(1))
         EXCEPT !.calories = NoneNum],
      [AddRequest(0, "Lunch", "dal", "", R(75), R(0), R(0), R(0), R(1))
         EXCEPT !.date_kind = "invalid"],
      [AddRequest(0, "Lunch", "dal", "", R(75), R(0), R(0), R(0), R(1))
         EXCEPT !.date_kind = "nonstring"] }

NextEdge ==
    \/ \E data \in EdgeRequests : AddMealEntry_post("u1", data)
    \/ \E id \in 1..nextId : RemoveMealEntry_delete("u1", id)

SpecEdge == Init /\ [][NextEdge]_vars

\* well-formed add requests for date 2 with a positive quantity
LedgerRequests ==
    {r \in AddRequests \cup EdgeRequests :
        /\ r.date_kind = "valid" /\ RequiredPresent(r)
        /\ r.date = 2 /\ RLt(R(0), r.quantity)}

\* one user adding to and removing from the ledger of one date
NextLedger ==
    \/ \E data \in LedgerRequests : AddMealEntry_post("u1", data)
    \/ \E id \in 1..nextId : RemoveMealEntry_delete("u1", id)

SpecLedger == Init /\ [][NextLedger]_vars


----------------------------------------------------------------------------
(* Claims about the ledger and the daily summary *)

SameKey(a, b) == a.date = b.date /\ a.meal_type = b.meal_type /\ a.name = b.name

\* consumed totals of the summary rows in a set of at most one row
ConsumedOf(rows) == IF rows = {} THEN ZeroMacros ELSE Consumed(CHOOSE s \in rows : TRUE)

\* C1: after any sequence of add, remove, toggle and dashboard-today requests
\* the consumed totals of every summary row equal the sum of macros over that
\* date's eaten entries, or else the running total of add deltas minus remove
\* deltas applied for that date.
C1_ConsumedConsistent ==
    \A s \in summaries :
        \/ Consumed(s) = EatenSum(entries, s.user, s.date)
        \/ Consumed(s) = running[s.user][s.date]

\* C2: for a key with no entry, an add of quantity q1 with per-unit macros m1
\* followed by an add of quantity q2 with per-unit macros m2 leaves a single
\* entry with quantity q1 + q2 and totals q1*m1 + q2*m2.
C2_AddTwice ==
    [][(/\ last.op = "add" /\ last.status = 200 /\ last.before = {}
        /\ nops' = nops + 1
        /\ last'.op = "add" /\ last'.status = 200
        /\ last'.user = last.user /\ SameKey(last'.req, last.req))
       => LET rows == Matching(entries', last.user, last.req.date,
                               last.req.meal_type, last.req.name)
          IN  /\ Cardinality(rows) = 1
              /\ \A e \in rows :
                   /\ e.quantity = RAdd(last.req.quantity, last'.req.quantity)
                   /\ EntryMacros(e) =
                        MAdd(MScale(OneServing(last.req), last.req.quantity),
                             MScale(OneServing(last'.req), last'.req.quantity))]_vars

\* C2 witness: the second request of a run is an add onto the entry the first
\* one created, with per-unit calories other than the stored ones
C2_Witness ==
    /\ nops = 2 /\ last.op = "add" /\ last.status = 200
    /\ \E b \in last.before : RDiv(b.calories, b.quantity) # last.req.calories

\* C5: remove_one_serving on an entry of quantity 1 deletes the row, reduces
\* the day's consumed totals by exactly that entry's stored totals and ends
\* without an error.
C5_RemoveLastServing ==
    (last.op = "remove" /\ \E b \in last.before : b.quantity = R(1))
    => /\ last.status = 200
       /\ \A b \in last.before :
            /\ ~\E e \in entries : e.id = b.id
            /\ ConsumedOf(SummaryOf(summaries, b.user, b.date)) =
                 MSub(ConsumedOf(last.sum_before), EntryMacros(b))

\* C6: toggling eaten twice on the same entry with nothing in between restores
\* the eaten flag, and the consumed totals after the second toggle equal
\* those before the first.
C6_ToggleTwice ==
    [][(/\ last.op = "toggle" /\ last.status = 200
        /\ nops' = nops + 1
        /\ last'.op = "toggle" /\ last'.status = 200
        /\ last'.user = last.user /\ last'.id = last.id)
       => \A b \in last.before :
            /\ \E e \in entries' : e.id = b.id /\ e.eaten = b.eaten
            /\ ConsumedOf(SummaryOf(summaries', b.user, b.date)) =
                 ConsumedOf(last.sum_before)]_vars


\* C21: remove_one_serving for an entry id that does not exist, or that
\* belongs to a different user, answers NotFound (404) and leaves every
\* MealEntry and DailySummary row unchanged.
C21_RemoveNotFound ==
    [][(/\ nops' = nops + 1
        /\ last'.op = "remove"
        /\ ~\E e \in entries : e.id = last'.id /\ e.user = last'.user)
       => /\ last'.status = 404
          /\ entries' = entries
          /\ summaries' = summaries]_vars

\* a remove answered 404 for an entry that exists and is another user's
C21_Witness ==
    /\ last.op = "remove" /\ last.status = 404
    /\ \E e \in entries : e.id = last.id /\ e.user # last.user


\* an add request the handler has to reject: a required field is missing,
\* or the date is not a YYYY-MM-DD date
Rejectable(data) ==
    \/ data.date_kind \in {"missing", "invalid", "nonstring"}
    \/ data.meal_type \in {NoneStr, ""}
    \/ data.name \in {NoneStr, ""}
    \/ data.calories = NoneNum

\* C22: an add_entry request with a missing date, meal_type, name or
\* calories, or with an unparseable date, is answered with a validation
\* error (400) and leaves every MealEntry and DailySummary row unchanged.
C22_AddRejected ==
    [][(nops' = nops + 1 /\ last'.op = "add" /\ Rejectable(last'.req))
       => /\ last'.status = 400
          /\ entries' = entries
          /\ summaries' = summaries]_vars

\* C23: remove_one_serving on an entry whose quantity is already 0 is
\* answered by the guard before the division totals/quantity is reached,
\* and ends without an error.
C23_RemoveAtZero ==
    [][(/\ nops' = nops + 1
        /\ last'.op = "remove"
        /\ \E e \in entries : /\ e.id = last'.id /\ e.user = last'.user
                               /\ e.quantity = R(0))
       => /\ last'.status = 200
          /\ last'.body = "Entry removed"]_vars

\* a remove of an entry stored with quantity 0 has been answered
C23_Witness ==
    /\ last.op = "remove"
    /\ \E b \in last.before : b.quantity = R(0)


\* C25: toggle_eaten changes only the eaten flag of the entry: its quantity,
\* calories, protein, carbs and fats (and every other column, and every
\* other entry) are the same before and after the call, for the POST and
\* the PATCH handler alike.
C25_ToggleOnlyEaten ==
    [][(/\ nops' = nops + 1
        /\ last'.op \in {"toggle", "toggle_post"}
        /\ last'.before # {})
       => \A b \in last'.before :
            /\ b \in entries
            /\ entries' = (entries \ {b}) \cup {[b EXCEPT !.eaten = ~b.eaten]}]_vars

\* a PATCH toggle of an entry of several servings that a POST toggle had
\* marked eaten
C25_Witness ==
    /\ last.op = "toggle" /\ last.status = 200
    /\ \E b \in last.before : b.eaten /\ b.quantity # R(1)


\* the (user, date) the last request was to recompute from the eaten
\* entries: a PATCH toggle that found its entry, or a dashboard-today read
\* that was answered
Recomputed ==
    IF last.op = "toggle" /\ last.before # {}
      THEN {<<last.user, b.date>> : b \in last.before}
    ELSE IF last.op = "today" /\ last.status = 200 THEN {<<last.user, last.req[1]>>}
    ELSE {}

\* C27: immediately after a toggle_eaten (PATCH) call or a dashboard-today
\* recompute for (user, date), the DailySummary consumed totals of that
\* (user, date) equal the sum of macros over that date's MealEntry rows with
\* eaten=true, whatever add/remove operations preceded it.
C27_RecomputedFromEaten ==
    \A k \in Recomputed :
      /\ SummaryOf(summaries, k[1], k[2]) # {}
      /\ \A s \in SummaryOf(summaries, k[1], k[2]) :
           Consumed(s) = EatenSum(entries, k[1], k[2])


\* sum of the stored totals over all entries of (user, date), eaten or not
StoredSum(rows, user, date) == MSum({e \in rows : e.user = user /\ e.date = date})

\* C28: in a sequence of only add (positive quantity) and remove requests
\* for one (user, date), after every request the DailySummary consumed
\* totals equal the sum of the stored totals over all MealEntry rows of that
\* date, whatever their eaten flags.
C28_LedgerSum ==
    \A d \in Dates :
        ConsumedOf(SummaryOf(summaries, "u1", d)) = StoredSum(entries, "u1", d)

\* C29: remove_one_serving on an entry of quantity q > 1 decreases the
\* quantity by exactly 1 and each stored total by total/q, so the per-unit
\* macros stay the same, and decreases the DailySummary consumed totals of
\* that date by the same amounts.
C29_RemoveOneOfSeveral ==
    [][(/\ nops' = nops + 1
        /\ last'.op = "remove"
        /\ \E b \in last'.before : RLt(R(1), b.quantity))
       => \A b \in last'.before :
            LET one == MDiv(EntryMacros(b), b.quantity)
            IN  /\ \E e \in entries' :
                     /\ e.id = b.id
                     /\ e.quantity = RSub(b.quantity, R(1))
                     /\ EntryMacros(e) = MSub(EntryMacros(b), one)
                     /\ MDiv(EntryMacros(e), e.quantity) = one
                /\ ConsumedOf(SummaryOf(summaries', b.user, b.date)) =
                     MSub(ConsumedOf(SummaryOf(summaries, b.user, b.date)), one)]_vars


\* the target columns of a summary row
TargetsOfRow(s) ==
    [calories_target |-> s.calories_target, protein_target |-> s.protein_target,
     carbs_target |-> s.carbs_target, fats_target |-> s.fats_target]

\* compute_daily_targets of a profile as a summary row would store them
TargetsOfProfile(profile) ==
    TargetsOfRow(SaveTargets(NewSummary("", 0), calculate_nutrition_targets(profile)))

\* the dates of the summary rows the last request wrote
WrittenDates ==
    IF last.status # 200 THEN {}
    ELSE IF last.op = "add" THEN {last.req.date}
    ELSE IF last.op \in {"remove", "toggle"} THEN {b.date : b \in last.before}
    ELSE IF last.op = "today" THEN {last.req[1]}
    ELSE {}

\* C13: after any operation that creates or writes a DailySummary row
\* (add_entry, remove_one_serving, toggle_eaten, dashboard-today), the row's
\* target fields equal compute_daily_targets of the user's current profile.
C13_TargetsRefreshed ==
    \A d \in WrittenDates :
      \A s \in SummaryOf(summaries, last.user, d) :
        ~calculate_nutrition_targets(profiles[last.user]).error
           => TargetsOfRow(s) = TargetsOfProfile(profiles[last.user])


----------------------------------------------------------------------------
(* ReportAggregator: DashboardWeeklyView and DashboardMonthlyView *)

\* datetime.date: the model's day numbers are ordinals counted from
\* 2024-01-01 = 1; years run from MINYEAR to MAXYEAR
MINYEAR == 1
MAXYEAR == 9999
Years == {2023, 2024, 2025, MAXYEAR}
IsLeap(y) == (y % 4 = 0 /\ y % 100 # 0) \/ y % 400 = 0
DaysInMonth(y, m) ==
    IF m = 2 THEN (IF IsLeap(y) THEN 29 ELSE 28)
    ELSE IF m \in {4, 6, 9, 11} THEN 30 ELSE 31
YearDays(y) == IF IsLeap(y) THEN 366 ELSE 365

RECURSIVE DaysBeforeMonth(_, _)
DaysBeforeMonth(y, m) ==
    IF m = 1 THEN 0 ELSE DaysBeforeMonth(y, m - 1) + DaysInMonth(y, m - 1)

\* leap days in the years before y
LeapsBefore(y) == (y - 1) \div 4 - (y - 1) \div 100 + (y - 1) \div 400
DaysBeforeYear(y) == 365 * (y - 2024) + LeapsBefore(y) - LeapsBefore(2024)

\* date(year, month, 1) raises ValueError outside these ranges
ValidDate(year, month) == year \in MINYEAR..MAXYEAR /\ month \in 1..12

\* date(year, month, day)
MakeDate(year, month, day) == [year |-> year, month |-> month, day |-> day]

toordinal(d) == DaysBeforeYear(d.year) + DaysBeforeMonth(d.year, d.month) + d.day

fromordinal(n) ==
    LET y == CHOOSE yy \in Years :
                 DaysBeforeYear(yy) < n /\ n <= DaysBeforeYear(yy) + YearDays(yy)
        rest == n - DaysBeforeYear(y)
        m == CHOOSE mm \in 1..12 :
                 /\ DaysBeforeMonth(y, mm) < rest
                 /\ rest <= DaysBeforeMonth(y, mm) + DaysInMonth(y, mm)
    IN  MakeDate(y, m, rest - DaysBeforeMonth(y, m))

\* ReportDay with a day that has no row reported as all zeros
ReportDayZeroTargets(rows, user, d, current_targets) ==
    IF SummaryOf(rows, user, d) # {} THEN
        LET obj == CHOOSE x \in SummaryOf(rows, user, d) : TRUE
        IN  [date |-> fromordinal(d),
             calories |-> PyInt(obj.calories_consumed),
             calories_target |-> PyInt(obj.calories_target),
             proteins |-> PyRound1(obj.protein_g),
             proteins_target |-> PyRound1(obj.protein_target),
             carbs |-> PyRound1(obj.carbs_g),
             carbs_target |-> PyRound1(obj.carbs_target),
             fats |-> PyRound1(obj.fats_g),
             fats_target |-> PyRound1(obj.fats_target)]
    ELSE
        [date |-> fromordinal(d),
         calories |-> 0, calories_target |-> 0,
         proteins |-> R(0), proteins_target |-> R(0),
         carbs |-> R(0), carbs_target |-> R(0),
         fats |-> R(0), fats_target |-> R(0)]

\* one element of "days" for ordinal d: the stored row, or zero consumed and
\* the current targets
ReportDay(rows, user, d, current_targets) ==
    IF SummaryOf(rows, user, d) # {} THEN
        LET obj == CHOOSE x \in SummaryOf(rows, user, d) : TRUE
        IN  [date |-> fromordinal(d),
             calories |-> PyInt(obj.calories_consumed),
             calories_target |-> PyInt(obj.calories_target),
             proteins |-> PyRound1(obj.protein_g),
             proteins_target |-> PyRound1(obj.protein_target),
             carbs |-> PyRound1(obj.carbs_g),
             carbs_target |-> PyRound1(obj.carbs_target),
             fats |-> PyRound1(obj.fats_g),
             fats_target |-> PyRound1(obj.fats_target)]
    ELSE
        [date |-> fromordinal(d),
         calories |-> 0,
         calories_target |-> PyInt(current_targets.calories_target),
         proteins |-> R(0),
         proteins_target |-> PyRound1(current_targets.protein_target),
         carbs |-> R(0),
         carbs_target |-> PyRound1(current_targets.carbs_target),
         fats |-> R(0),
         fats_target |-> PyRound1(current_targets.fats_target)]

\* what one day adds to the running totals (unrounded)
ReportDayTotals(rows, user, d, current_targets) ==
    IF SummaryOf(rows, user, d) # {} THEN
        LET obj == CHOOSE x \in SummaryOf(rows, user, d) : TRUE
        IN  [consumed |-> Consumed(obj),
             target |-> [calories |-> obj.calories_target, protein_g |-> obj.protein_target,
                         carbs_g |-> obj.carbs_target, fats_g |-> obj.fats_target]]
    ELSE
        [consumed |-> ZeroMacros,
         target |-> [calories |-> current_targets.calories_target,
                     protein_g |-> current_targets.protein_target,
                     carbs_g |-> current_targets.carbs_target,
                     fats_g |-> current_targets.fats_target]]

\* the totals of the days first..last_day; the window is summed by halves
RECURSIVE ReportTotals(_, _, _, _, _)
ReportTotals(rows, user, first, last_day, current_targets) ==
    IF first > last_day THEN [consumed |-> ZeroMacros, target |-> ZeroMacros]
    ELSE IF first = last_day THEN ReportDayTotals(rows, user, first, current_targets)
    ELSE LET mid == (first + last_day) \div 2
         IN  [consumed |-> MAdd(ReportTotals(rows, user, first, mid,
                                             current_targets).consumed,
                                ReportTotals(rows, user, mid + 1, last_day,
                                             current_targets).consumed),
              target |-> MAdd(ReportTotals(rows, user, first, mid,
                                           current_targets).target,
                              ReportTotals(rows, user, mid + 1, last_day,
                                           current_targets).target)]

\* the body both report views build for the window first..last
ReportBody(rows, user, first, last_day, current_targets) ==
    LET totals == ReportTotals(rows, user, first, last_day, current_targets)
    IN  [start_date |-> fromordinal(first),
         end_date |-> fromordinal(last_day),
         calories |-> ReportBlock(totals.consumed.calories, totals.target.calories, TRUE),
         proteins |-> ReportBlock(totals.consumed.protein_g, totals.target.protein_g, FALSE),
         carbs |-> ReportBlock(totals.consumed.carbs_g, totals.target.carbs_g, FALSE),
         fats |-> ReportBlock(totals.consumed.fats_g, totals.target.fats_g, FALSE),
         days |-> [i \in 1..(last_day - first + 1) |->
                      ReportDay(rows, user, first + i - 1, current_targets)]]


\* a weekly report that creates a row for each window day that has none,
\* the way the dashboard of today does
DashboardWeekly_get_filling(user) ==
    /\ nops < MaxOps
    /\ UNCHANGED <<entries, profiles, nextId, now, running, procs, recs, gen_calls, weekly>>
    /\ LET today == now
           start_date == today - 6
           current_targets == calculate_nutrition_targets(profiles[user])
           resp(code) == Response("weekly_report", user, code, <<start_date, today>>, 0, {},
                                  {x \in summaries : x.user = user})
       IN  IF current_targets.error THEN
               /\ Served(resp(500))
               /\ UNCHANGED summaries
           ELSE
               /\ summaries' = summaries \cup
                     {NewSummary(user, d) : d \in {x \in start_date..today :
                                                      SummaryOf(summaries, user, x) = {}}}
               /\ Served([resp(200) EXCEPT !.body =
                           ReportBody(summaries, user, start_date, today, current_targets)])

\* DashboardWeeklyView.get: the 7 days ending today
DashboardWeekly_get(user) ==
    /\ nops < MaxOps
    /\ UNCHANGED <<entries, summaries, profiles, nextId, now, running, procs, recs,
                   gen_calls, weekly>>
    /\ LET today == now
           start_date == today - 6
           current_targets == calculate_nutrition_targets(profiles[user])
           resp(code) == Response("weekly_report", user, code, <<start_date, today>>, 0, {},
                                  {x \in summaries : x.user = user})
       IN  IF current_targets.error THEN Served(resp(500))
           ELSE Served([resp(200) EXCEPT !.body =
                           ReportBody(summaries, user, start_date, today, current_targets)])

\* the first day of the month after first_day, as (year, month)
next_month(first_day) ==
    IF first_day.month = 12 THEN MakeDate(first_day.year + 1, 1, 1)
    ELSE MakeDate(first_day.year, first_day.month + 1, 1)

\* the month query parameter: absent, "YYYY-MM", or text that does not split
\* into two integers
NoMonth == [kind |-> "absent", year |-> 0, month |-> 0]
BadMonth == [kind |-> "malformed", year |-> 0, month |-> 0]
YearMonth(y, m) == [kind |-> "ym", year |-> y, month |-> m]

\* DashboardMonthlyView.get
DashboardMonthly_get(user, month_str) ==
    /\ nops < MaxOps
    /\ UNCHANGED <<entries, summaries, profiles, nextId, now, running, procs, recs,
                   gen_calls, weekly>>
    /\ LET resp(code, first, last_day) ==
               Response("monthly_report", user, code, <<first, last_day, month_str>>, 0, {},
                        {x \in summaries : x.user = user})
       IN  IF month_str.kind = "malformed"
              \/ (month_str.kind = "ym" /\ ~ValidDate(month_str.year, month_str.month)) THEN
               \* map(int, ...) or date(year, month, 1) raises inside the try
               Served(resp(400, 0, 0))
           ELSE
           LET today == fromordinal(now)
               first_day == IF month_str.kind = "ym"
                            THEN MakeDate(month_str.year, month_str.month, 1)
                            ELSE MakeDate(today.year, today.month, 1)
               next == next_month(first_day)
               last_day == toordinal(next) - 1
               current_targets == calculate_nutrition_targets(profiles[user])
           IN  IF ~ValidDate(next.year, next.month) THEN
                   \* date(first_day.year + 1, 1, 1) raises outside any try
                   Served(resp(500, toordinal(first_day), 0))
               ELSE IF current_targets.error THEN
                   Served(resp(500, toordinal(first_day), last_day))
               ELSE
                   Served([resp(200, toordinal(first_day), last_day) EXCEPT !.body =
                              ReportBody(summaries, user, toordinal(first_day), last_day,
                                         current_targets)])

\* the from/to query parameters: one or both absent, text that is not a
\* date, or two dates
NoRange == [kind |-> "absent", from |-> 0, to |-> 0]
BadRange == [kind |-> "malformed", from |-> 0, to |-> 0]
DateRange(from_date, to_date) == [kind |-> "range", from |-> from_date, to |-> to_date]

\* DailyNutritionSummary.calories_remaining
calories_remaining(s) == RMax(RSub(s.calories_target, s.calories_consumed), R(0))

\* the series over the stored rows of from_date..to_date, ordered by date
RECURSIVE TrendSeries(_, _, _, _)
TrendSeries(rows, user, from_date, to_date) ==
    IF from_date > to_date THEN <<>>
    ELSE LET stored == SummaryOf(rows, user, from_date)
         IN  (IF stored = {} THEN <<>>
              ELSE LET x == CHOOSE y \in stored : TRUE
                   IN  <<[date |-> x.date, calories_target |-> x.calories_target,
                          calories_consumed |-> x.calories_consumed,
                          calories_remaining |-> calories_remaining(x)]>>)
             \o TrendSeries(rows, user, from_date + 1, to_date)

\* CaloriesTrendView.get
CaloriesTrend_get(user, range) ==
    /\ nops < MaxOps
    /\ UNCHANGED <<entries, summaries, profiles, nextId, now, running, procs, recs,
                   gen_calls, weekly>>
    /\ LET from_date == IF range.kind = "absent" THEN now - 6 ELSE range.from
           to_date == IF range.kind = "absent" THEN now ELSE range.to
           resp(code) == Response("calories_trend", user, code, <<from_date, to_date, range>>,
                                  0, {}, {x \in summaries : x.user = user})
       IN  IF range.kind = "malformed" \/ from_date > to_date THEN Served(resp(400))
           ELSE Served([resp(200) EXCEPT !.body =
                           TrendSeries(summaries, user, from_date, to_date)])

\* the fields a profile update sends and their values
ProfileFields ==
    {"name", "age", "weight", "weight_unit", "height_cm", "gender", "goal",
     "diet_preference", "health_conditions", "allergies"}

\* ProfileOverviewView.put
ProfileOverview_put(user, data) ==
    /\ nops < MaxOps
    /\ UNCHANGED <<entries, summaries, nextId, now, running, procs, recs, gen_calls, weekly>>
    /\ LET profile == IF profiles[user].exists THEN profiles[user] ELSE EmptyProfile
           updated == [f \in DOMAIN profile |->
                          IF f \in data.fields THEN data.values[f] ELSE profile[f]]
       IN  /\ profiles' = [profiles EXCEPT ![user] = updated]
           /\ Served(Response("profile_put", user, 200, data, 0, {}, {}))


\* u1's add requests while the reports are read, for today and yesterday,
\* with macros of two decimals
ReportRequests ==
    { AddRequest(2, "Breakfast", "idli", "2 pieces", R(100), R(4), R(20), R(1), R(1)),
      AddRequest(2, "Lunch", "dal", "", Rat(151, 2), Rat(434, 100), R(12), R(2), R(1)),
      AddRequest(1, "Breakfast", "idli", "", R(100), Rat(436, 100), R(20), R(1),
                 Rat(3, 2)) }

\* profile updates: one field, and every field
FemaleProfile ==
    [exists |-> TRUE, name |-> "Asha", age |-> R(40), weight |-> R(60),
     weight_unit |-> "kg", height_cm |-> R(160), gender |-> "Female",
     goal |-> "Muscle Gain", diet_preference |-> "Vegan",
     health_conditions |-> {"Diabetes"}, allergies |-> {}]

ProfileEdits ==
    {[fields |-> {"weight"}, values |-> [MaleProfile EXCEPT !.weight = R(80)]],
     [fields |-> ProfileFields, values |-> FemaleProfile]}

MonthParams == {NoMonth, BadMonth, YearMonth(2024, 2)}

TrendParams == {NoRange, BadRange, DateRange(1, 2), DateRange(2, 1)}

NextRep ==
    \/ \E data \in ReportRequests : AddMealEntry_post("u1", data)
    \/ \E id \in 1..nextId : RemoveMealEntry_delete("u1", id)
    \/ DashboardToday_get("u1")
    \/ DashboardWeekly_get("u1")
    \/ \E month_str \in MonthParams : DashboardMonthly_get("u1", month_str)
    \/ \E range \in TrendParams : CaloriesTrend_get("u1", range)
    \/ \E data \in ProfileEdits : ProfileOverview_put("u1", data)

SpecRep == Init /\ [][NextRep]_vars

\* the monthly report read for every month of a common and a leap year, for
\* months 0 and 13, and for December of the last year a date can hold
AllMonths ==
    {NoMonth, BadMonth, YearMonth(0, 5), YearMonth(MAXYEAR, 12)}
       \cup {YearMonth(y, m) : y \in 2023..2024, m \in 0..13}

NextMonthly ==
    \/ \E data \in {r \in ReportRequests : r.name = "idli"} : AddMealEntry_post("u1", data)
    \/ \E month_str \in AllMonths : DashboardMonthly_get("u1", month_str)

SpecMonthly == Init /\ [][NextMonthly]_vars


\* round(consumed / target * 100) clamped to [0, 100], and 0 for target <= 0
ClampedPct(consumed, target) ==
    IF RLe(target, R(0)) THEN 0
    ELSE LET pct == PyRound(RMul(RDiv(consumed, target), R(100)))
         IN  IF pct < 0 THEN 0 ELSE IF pct > 100 THEN 100 ELSE pct

\* the unrounded (consumed, target) pairs behind the percentages of the last
\* response, in the order calories, proteins, carbs, fats
PctInputs ==
    IF last.op = "today" THEN
        LET c == EatenSum(entries, last.user, last.req[1])
            t == calculate_nutrition_targets(profiles[last.user])
        IN  <<<<c.calories, t.calories_target>>, <<c.protein_g, t.protein_target>>,
              <<c.carbs_g, t.carbs_target>>, <<c.fats_g, t.fats_target>>>>
    ELSE
        LET t == ReportTotals(summaries, last.user, last.req[1], last.req[2],
                              calculate_nutrition_targets(profiles[last.user]))
        IN  <<<<t.consumed.calories, t.target.calories>>,
              <<t.consumed.protein_g, t.target.protein_g>>,
              <<t.consumed.carbs_g, t.target.carbs_g>>,
              <<t.consumed.fats_g, t.target.fats_g>>>>

PctReported ==
    <<last.body.calories.percentage, last.body.proteins.percentage,
      last.body.carbs.percentage, last.body.fats.percentage>>

\* C14: every percentage reported for a DailySummary row or a weekly/monthly
\* report total lies in [0, 100], equals round(consumed/target*100) clamped
\* to that range, and is 0 whenever target <= 0.
C14_PercentageClamped ==
    (last.op \in {"today", "weekly_report", "monthly_report"} /\ last.status = 200)
       => \A i \in 1..4 :
            /\ PctReported[i] \in 0..100
            /\ PctReported[i] = ClampedPct(PctInputs[i][1], PctInputs[i][2])


ReportServed ==
    last.op \in {"weekly_report", "monthly_report"} /\ last.status = 200

\* the sum of f over lo..hi, by halves
RECURSIVE SumOver(_, _, _)
SumOver(f, lo, hi) ==
    IF lo > hi THEN R(0)
    ELSE IF lo = hi THEN f[lo]
    ELSE RAdd(SumOver(f, lo, (lo + hi) \div 2), SumOver(f, (lo + hi) \div 2 + 1, hi))

\* the day entry the stored row s stands for
StoredDay(s) ==
    [calories |-> PyInt(s.calories_consumed), calories_target |-> PyInt(s.calories_target),
     proteins |-> PyRound1(s.protein_g), proteins_target |-> PyRound1(s.protein_target),
     carbs |-> PyRound1(s.carbs_g), carbs_target |-> PyRound1(s.carbs_target),
     fats |-> PyRound1(s.fats_g), fats_target |-> PyRound1(s.fats_target)]

\* the day entry of a day without a row under the targets t
MissingDay(t) ==
    [calories |-> 0, calories_target |-> PyInt(t.calories_target),
     proteins |-> R(0), proteins_target |-> PyRound1(t.protein_target),
     carbs |-> R(0), carbs_target |-> PyRound1(t.carbs_target),
     fats |-> R(0), fats_target |-> PyRound1(t.fats_target)]

DayValues(day) == [f \in DOMAIN day \ {"date"} |-> day[f]]

\* C15: each day entry of a weekly or monthly report carries the stored
\* DailySummary values when a row exists for that day, and zero consumed
\* values plus the current profile's computed targets when none exists; the
\* report totals are the sums of the per-day values.
C15_ReportDaysAndTotals ==
    ReportServed =>
      LET days == last.body.days
          n == Len(days)
          first == last.req[1]
          t == calculate_nutrition_targets(profiles[last.user])
          stored(i, f) == (CHOOSE s \in SummaryOf(summaries, last.user, first + i - 1) :
                              TRUE)[f]
          consumed(f) == [i \in 1..n |->
                            IF SummaryOf(summaries, last.user, first + i - 1) # {}
                            THEN stored(i, f) ELSE R(0)]
          target(f) == [i \in 1..n |->
                          IF SummaryOf(summaries, last.user, first + i - 1) # {}
                          THEN stored(i, f) ELSE t[f]]
      IN  /\ n = last.req[2] - first + 1
          /\ \A i \in 1..n :
               LET rows == SummaryOf(summaries, last.user, first + i - 1)
               IN  IF rows # {} THEN \E s \in rows : DayValues(days[i]) = StoredDay(s)
                   ELSE DayValues(days[i]) = MissingDay(t)
          /\ last.body.calories.consumed
               = R(PyInt(SumOver(consumed("calories_consumed"), 1, n)))
          /\ last.body.calories.target
               = R(PyInt(SumOver(target("calories_target"), 1, n)))
          /\ last.body.proteins.consumed = PyRound1(SumOver(consumed("protein_g"), 1, n))
          /\ last.body.proteins.target = PyRound1(SumOver(target("protein_target"), 1, n))
          /\ last.body.carbs.consumed = PyRound1(SumOver(consumed("carbs_g"), 1, n))
          /\ last.body.carbs.target = PyRound1(SumOver(target("carbs_target"), 1, n))
          /\ last.body.fats.consumed = PyRound1(SumOver(consumed("fats_g"), 1, n))
          /\ last.body.fats.target = PyRound1(SumOver(target("fats_target"), 1, n))

\* a report over a window with a stored day and a day without a row, read
\* after the profile was edited
C15_Witness ==
    /\ ReportServed
    /\ profiles[last.user] \notin {p[last.user] : p \in InitProfiles}
    /\ \E d \in last.req[1]..last.req[2] : SummaryOf(summaries, last.user, d) # {}
    /\ \E d \in last.req[1]..last.req[2] : SummaryOf(summaries, last.user, d) = {}
    /\ \E s \in summaries :
         /\ s.user = last.user
         /\ TargetsOfRow(s) # TargetsOfProfile(profiles[last.user])


\* the Gregorian calendar's month lengths
CalendarLength(y, m) ==
    IF m = 2 /\ (y % 400 = 0 \/ (y % 4 = 0 /\ y % 100 # 0)) THEN 29
    ELSE <<31, 28, 31, 30, 31, 30, 31, 31, 30, 31, 30, 31>>[m]

\* the last request asked the monthly report for a month YYYY-MM
MonthRequested ==
    /\ last.op = "monthly_report"
    /\ last.req[3].kind = "ym"
    /\ last.req[3].year \in 1..9999
    /\ last.req[3].month \in 1..12

\* C16: for a requested month YYYY-MM the monthly report's window runs from
\* the first to the last calendar day of that month (December rolling over
\* into January of the next year when the end is computed), and the report
\* holds exactly one entry per day of the window in ascending date order;
\* 2024-02 yields 29 entries.
C16_MonthWindow ==
    MonthRequested =>
      LET y == last.req[3].year
          m == last.req[3].month
      IN  /\ last.status \in {200, 500}
          /\ last.status = 500 => calculate_nutrition_targets(profiles[last.user]).error
          /\ last.status = 200 =>
               /\ last.body.start_date = [year |-> y, month |-> m, day |-> 1]
               /\ last.body.end_date = [year |-> y, month |-> m,
                                        day |-> CalendarLength(y, m)]
               /\ Len(last.body.days) = CalendarLength(y, m)
               /\ \A i \in 1..Len(last.body.days) :
                    last.body.days[i].date = [year |-> y, month |-> m, day |-> i]
               /\ (y = 2024 /\ m = 2) => Len(last.body.days) = 29


----------------------------------------------------------------------------
(* AddMealEntryView.post as interleaved database statements.  Requests run   *)
(* in autocommit mode: every query is its own transaction, and nothing in   *)
(* the handler takes a lock.                                                *)

Procs == {"p1", "p2", "p3"}

\* requests of u1 for one (date, slot, name) key
ConcRequests == {r \in AddRequests : r.date_kind = "valid" /\ r.date = 2 /\ r.name = "idli"}

Idle == [pc |-> "idle", user |-> "", data |-> <<>>, entry |-> NoRow,
         created |-> FALSE, summary |-> NoRow, status |-> 0]

\* the request arrives and passes validation (lines 1320-1348)
AddBegin(p, user, data) ==
    /\ procs[p].pc = "idle"
    /\ RequiredPresent(data) /\ data.date_kind = "valid"
    /\ procs' = [procs EXCEPT ![p] = [Idle EXCEPT !.pc = "lookup", !.user = user, !.data = data]]
    /\ UNCHANGED <<entries, summaries, profiles, nextId, now, running, last, nops, recs, gen_calls, weekly>>

\* get_or_create, first half: SELECT by (user, date, meal_type, name)
AddLookup(p) ==
    /\ procs[p].pc = "lookup"
    /\ LET me == procs[p]
           found == Matching(entries, me.user, me.data.date, me.data.meal_type, me.data.name)
       IN  procs' = [procs EXCEPT ![p] =
               IF Cardinality(found) > 1 THEN [me EXCEPT !.pc = "done", !.status = 500]
               ELSE IF found = {} THEN [me EXCEPT !.pc = "insert"]
               ELSE [me EXCEPT !.pc = "save", !.created = FALSE,
                               !.entry = Accumulate(CHOOSE e \in found : TRUE, me.data)]]
    /\ UNCHANGED <<entries, summaries, profiles, nextId, now, running, last, nops, recs, gen_calls, weekly>>

\* get_or_create, second half: INSERT of the defaults; MealEntry declares no
\* unique constraint, so the INSERT cannot fail
AddInsert(p) ==
    /\ procs[p].pc = "insert"
    /\ LET me == procs[p]
           entry == NewEntry(nextId, me.user, me.data)
       IN  /\ entries' = entries \cup {entry}
           /\ nextId' = nextId + 1
           /\ procs' = [procs EXCEPT ![p] = [me EXCEPT !.pc = "save", !.created = TRUE,
                                                       !.entry = entry]]
    /\ UNCHANGED <<summaries, profiles, now, running, last, nops, recs, gen_calls, weekly>>

\* entry.save(): UPDATE of every column from the in-memory object
AddSave(p) ==
    /\ procs[p].pc = "save"
    /\ entries' = SaveEntry(entries, procs[p].entry)
    /\ procs' = [procs EXCEPT ![p].pc = "sum_get"]
    /\ UNCHANGED <<summaries, profiles, nextId, now, running, last, nops, recs, gen_calls, weekly>>

\* DailyNutritionSummary get_or_create: (user, date) is unique_together, so a
\* racing INSERT fails and the row is read again
AddSummaryGet(p) ==
    /\ procs[p].pc = "sum_get"
    /\ LET me == procs[p]
           summary == GetOrCreateSummary(summaries, me.user, me.data.date,
                                         NewSummary(me.user, me.data.date))
       IN  /\ summaries' = summaries \cup {summary}
           /\ procs' = [procs EXCEPT ![p] = [me EXCEPT !.pc = "sum_save", !.summary = summary]]
    /\ UNCHANGED <<entries, profiles, nextId, now, running, last, nops, recs, gen_calls, weekly>>

\* summary.save(): UPDATE from the in-memory object plus this request's delta
AddSummarySave(p) ==
    /\ procs[p].pc = "sum_save"
    /\ LET me == procs[p]
       IN  /\ summaries' = PutSummary(summaries,
                  SaveConsumed(me.summary, MAdd(Consumed(me.summary), AddDelta(me.data))))
           /\ running' = [running EXCEPT ![me.user][me.data.date] = MAdd(@, AddDelta(me.data))]
           /\ procs' = [procs EXCEPT ![p] = [me EXCEPT !.pc = "done", !.status = 200]]
    /\ UNCHANGED <<entries, profiles, nextId, now, last, nops, recs, gen_calls, weekly>>

InitConc ==
    /\ entries = {}
    /\ summaries = {}
    /\ profiles \in InitProfiles
    /\ nextId = 1
    /\ now = 2
    /\ running = [u \in Users |-> [d \in Dates |-> ZeroMacros]]
    /\ last = NoResponse
    /\ nops = 0
    /\ procs = [p \in Procs |-> Idle]
    /\ recs = {}
    /\ gen_calls = [m \in SlotNames |-> 0]
    /\ weekly = {}

NextConc ==
    \/ \E p \in Procs : \E data \in ConcRequests : AddBegin(p, "u1", data)
    \/ \E p \in Procs : AddLookup(p)
    \/ \E p \in Procs : AddInsert(p)
    \/ \E p \in Procs : AddSave(p)
    \/ \E p \in Procs : AddSummaryGet(p)
    \/ \E p \in Procs : AddSummarySave(p)

SpecConc == InitConc /\ [][NextConc]_vars

\* every request has been answered
Quiescent == \A p \in Procs : procs[p].pc \in {"idle", "done"}

RECURSIVE QtySum(_)
\* total quantity stored in a set of MealEntry rows
QtySum(rows) ==
    IF rows = {} THEN R(0)
    ELSE LET e == CHOOSE x \in rows : TRUE IN RAdd(e.quantity, QtySum(rows \ {e}))

RECURSIVE AnsweredDelta(_)
\* what the requests of the processes in S add to the totals
AnsweredDelta(S) ==
    IF S = {} THEN ZeroMacros
    ELSE LET p == CHOOSE x \in S : TRUE
         IN  MAdd(AddDelta(procs[p].data), AnsweredDelta(S \ {p}))

RECURSIVE AnsweredQuantity(_)
\* what the requests of the processes in S add to the quantity
AnsweredQuantity(S) ==
    IF S = {} THEN R(0)
    ELSE LET p == CHOOSE x \in S : TRUE
         IN  RAdd(procs[p].data.quantity, AnsweredQuantity(S \ {p}))

\* C3: when add_entry requests for one key run interleaved, no update is
\* lost: once all are answered, the quantity and totals stored for the key
\* and the day's consumed totals reflect every answered addition.
C3_NoLostUpdate ==
    Quiescent =>
        LET answered == {p \in Procs : procs[p].status = 200}
            rows == {e \in entries : e.user = "u1" /\ e.date = 2}
        IN  /\ MSum(rows) = AnsweredDelta(answered)
            /\ QtySum(rows) = AnsweredQuantity(answered)
            /\ ConsumedOf(SummaryOf(summaries, "u1", 2)) = AnsweredDelta(answered)

\* C4: in every reachable state, interleaved add_entry requests included,
\* there is at most one MealEntry row per (user, date, meal_type, name).
C4_OneRowPerKey ==
    \A e1, e2 \in entries :
        (e1.user = e2.user /\ e1.date = e2.date /\ e1.meal_type = e2.meal_type
         /\ e1.name = e2.name) => e1.id = e2.id


----------------------------------------------------------------------------
(* Recommendation generator: recommend_meals_for_user *)

\* a JSON value of an item field: a number, a string, or the key is absent
Num(x) == [kind |-> "num", num |-> x, str |-> ""]
Str(x) == [kind |-> "str", num |-> R(0), str |-> x]
Absent == [kind |-> "absent", num |-> R(0), str |-> ""]

\* item.get(key, default)
ItemGet(item, key, default) == IF item[key].kind = "absent" THEN default ELSE item[key]

\* generate_meal_image / get_fallback_image_url: some URL for the prompt, never empty
ImageUrl(item_name, item_serving) == Str("image")

\* lines 181-205: the cleaned copy of one generated item
CleanItem(item) ==
    [name |-> ItemGet(item, "name", Str("")),
     serving |-> ItemGet(item, "serving", Str("")),
     calories |-> ItemGet(item, "calories", Num(R(0))),
     protein_g |-> ItemGet(item, "protein_g", Num(R(0))),
     carbs_g |-> ItemGet(item, "carbs_g", Num(R(0))),
     fats_g |-> ItemGet(item, "fats_g", Num(R(0))),
     note |-> ItemGet(item, "note", Str("")),
     image_url |-> ImageUrl(ItemGet(item, "name", Str("")), ItemGet(item, "serving", Str("")))]

\* items[:8]
KeepItems == 8
FirstItems(items) == SubSeq(items, 1, IF Len(items) < KeepItems THEN Len(items) ELSE KeepItems)

\* line 173: the single item built from a response that is not JSON
RawTextItem(raw) ==
    [name |-> Str(raw), serving |-> Str(""), calories |-> Num(R(0)),
     protein_g |-> Num(R(0)), carbs_g |-> Num(R(0)), fats_g |-> Num(R(0)),
     note |-> Str(""), image_url |-> Absent]

\* responses of the chat model the reads draw from
\* json: json.loads accepts the text; objects: every element of "items" is a
\* JSON object (item.get exists)
JsonResponse ==
    [json |-> TRUE, objects |-> TRUE, text |-> "",
     items |-> << [name |-> Str("Idli"), serving |-> Str("2 pieces"), calories |-> Num(R(120)),
                   protein_g |-> Num(R(4)), carbs_g |-> Num(R(24)), fats_g |-> Num(R(1)),
                   note |-> Absent, image_url |-> Absent] >>]
TextResponse ==
    [json |-> FALSE, objects |-> FALSE, text |-> "Here are some ideas", items |-> <<>>]
\* {"items": ["Idli", "Dosa"]}: valid JSON whose items are strings
StringItemsResponse == [json |-> TRUE, objects |-> FALSE, text |-> "", items |-> <<>>]
RawResponses == {JsonResponse, TextResponse, StringItemsResponse}

\* a JSON response whose numeric fields are a range, a number with a unit,
\* a numeric string, and a missing key
LooseNumbersResponse ==
    [json |-> TRUE, objects |-> TRUE, text |-> "",
     items |-> << [name |-> Str("Poha"), serving |-> Str("1 bowl"),
                   calories |-> Str("250-300"), protein_g |-> Str("12g"),
                   carbs_g |-> Str("30"), fats_g |-> Absent,
                   note |-> Absent, image_url |-> Absent] >>]

\* env: client (is the OpenAI client initialised), api_ok (did the chat call
\* return), raw (the response text). raised: the call ended in an exception
\* no handler of the function catches (item.get on an item that is no object,
\* line 183)
recommend_meals_for_user(env) ==
    IF ~env.client THEN
        [error |-> "OpenAI client not initialized", items |-> <<>>, raised |-> FALSE]
    ELSE IF ~env.api_ok THEN
        [error |-> "Failed to generate meal recommendations", items |-> <<>>,
         raised |-> FALSE]
    ELSE IF env.raw.json /\ ~env.raw.objects THEN
        [error |-> "", items |-> <<>>, raised |-> TRUE]
    ELSE
    LET items == IF env.raw.json THEN env.raw.items ELSE <<RawTextItem(env.raw.text)>>
        kept == FirstItems(items)
    IN  [error |-> "", items |-> [i \in 1..Len(kept) |-> CleanItem(kept[i])],
         raised |-> FALSE]

----------------------------------------------------------------------------
(* RecommendationCache: MealRecommendation rows and MealRecommendationsView *)

CacheDays == 7

\* variants of the validity test: a nine-day period, a period that
\* includes its last instant, and a period that ends with the day of creation
is_valid_nine_days(rec, t) == t < rec.created_at + CacheDays + 2
is_valid_inclusive(rec, t) == t <= rec.created_at + CacheDays
is_valid_same_day(rec, t) == t < rec.created_at + 1

\* MealRecommendation.is_valid at time t
is_valid(rec, t) == t < rec.created_at + CacheDays

\* every slot given a fifth of the day
MealPercentageEven(meal_type) == Rat(20, 100)

MealPercentage(meal_type) ==
    CASE meal_type = "Breakfast" -> Rat(25, 100)
      [] meal_type = "Brunch" -> Rat(15, 100)
      [] meal_type = "Lunch" -> Rat(35, 100)
      [] meal_type = "Evening Snacks" -> Rat(10, 100)
      [] meal_type = "Dinner" -> Rat(30, 100)
      [] OTHER -> Rat(25, 100)

MinMealCalories == 300

\* MealRecommendationsView._calculate_target_calories
calculate_target_calories(profile, meal_type) ==
    LET weight == IF Falsy(profile.weight) THEN R(70) ELSE profile.weight
        height == IF Falsy(profile.height_cm) THEN R(175) ELSE profile.height_cm
        age == IF Falsy(profile.age) THEN R(30) ELSE profile.age
        gender == IF profile.gender \in {NoneStr, ""} THEN "Male" ELSE profile.gender
        goal == IF profile.goal \in {NoneStr, ""} THEN "Weight Loss" ELSE profile.goal
        bmr == IF gender = "Female"
               THEN RSub(RAdd(RAdd(R(655), RMul(Rat(96, 10), weight)),
                              RMul(Rat(18, 10), height)), RMul(Rat(47, 10), age))
               ELSE RSub(RAdd(RAdd(R(88), RMul(Rat(134, 10), weight)),
                              RMul(Rat(48, 10), height)), RMul(Rat(57, 10), age))
        tdee == IF goal = "Weight Loss" THEN RMul(bmr, Rat(14, 10))
                ELSE IF goal = "Weight Gain" THEN RMul(bmr, Rat(16, 10))
                ELSE RMul(bmr, Rat(15, 10))
        target == PyInt(RMul(tdee, MealPercentage(meal_type)))
    IN  IF target > MinMealCalories THEN target ELSE MinMealCalories

\* _calculate_target_calories for the profiles the specifications start
\* from, evaluated once
StartingSlotTargets ==
    [p \in {MaleProfile, EmptyProfile} |->
        [m \in SlotNames |-> calculate_target_calories(p, m)]]

\* self._calculate_target_calories(profile, meal_type) at line 927
slot_target_calories(profile, meal_type) ==
    IF profile \in DOMAIN StartingSlotTargets
    THEN StartingSlotTargets[profile][meal_type]
    ELSE calculate_target_calories(profile, meal_type)


RecOf(rows, user, date, meal_type) ==
    {r \in rows : r.user = user /\ r.date = date /\ r.meal_type = meal_type}

\* MealRecommendation.goal and .diet_preference are NOT NULL columns: create()
\* raises IntegrityError for a profile that has either one None
CreateFails(profile) == profile.goal = NoneStr \/ profile.diet_preference = NoneStr

NewRecommendation(user, profile, date, meal_type, items, target, t) ==
    [user |-> user, date |-> date, meal_type |-> meal_type, items_json |-> items,
     goal |-> profile.goal, diet_preference |-> profile.diet_preference,
     health_conditions |-> profile.health_conditions,
     target_calories |-> target, created_at |-> t]

SlotResult(meal_type, error, cached, created_at, items, goal, diet, conditions, target) ==
    [meal_type |-> meal_type, error |-> error, cached |-> cached,
     created_at |-> created_at, items |-> items, goal |-> goal,
     diet_preference |-> diet, health_conditions |-> conditions,
     target_calories |-> target]

\* a variant of the lookup that serves any stored row, valid or not
ServedWhenStored(rows, user, date, meal_type, t) ==
    RecOf(rows, user, date, meal_type) # {}

\* lines 888-913: is the stored row served
ServedFromCache(rows, user, date, meal_type, t) ==
    \E r \in RecOf(rows, user, date, meal_type) : is_valid(r, t)

\* a variant that leaves the expired row in place
KeepExpired(stored) == stored

\* lines 909-913: meal_rec.delete() before the generator is called; the
\* rows of the key afterwards
DeleteExpired(stored) == {}

\* one pass of the loop body (lines 887-956) for meal_type at time t: the
\* slot's result, the slot's rows afterwards, the number of generator calls,
\* and whether the pass ended in the generator's exception
SlotPass(rows, user, profile, date, meal_type, env, t) ==
    IF ServedFromCache(rows, user, date, meal_type, t) THEN
        LET meal_rec == CHOOSE x \in RecOf(rows, user, date, meal_type) : TRUE
        IN  [result |-> SlotResult(meal_type, "", TRUE, meal_rec.created_at,
                                   meal_rec.items_json, meal_rec.goal,
                                   meal_rec.diet_preference, meal_rec.health_conditions,
                                   meal_rec.target_calories),
             rows |-> {meal_rec}, calls |-> 0, raised |-> FALSE]
    ELSE
        \* a missing row, or an expired one, which is deleted first
        LET ai_response == recommend_meals_for_user(env)
            deleted == DeleteExpired(RecOf(rows, user, date, meal_type))
        IN  IF ai_response.error # "" THEN
                [result |-> SlotResult(meal_type, ai_response.error, FALSE, 0, <<>>,
                                       "", "", {}, 0),
                 rows |-> deleted, calls |-> 1, raised |-> ai_response.raised]
            ELSE IF ai_response.raised THEN
                [result |-> SlotResult(meal_type, "", FALSE, 0, <<>>, "", "", {}, 0),
                 rows |-> deleted, calls |-> 1, raised |-> TRUE]
            ELSE
                LET target_calories == slot_target_calories(profile, meal_type)
                IN  [result |-> SlotResult(meal_type, "", FALSE, t, ai_response.items,
                                           profile.goal, profile.diet_preference,
                                           profile.health_conditions, target_calories),
                     rows |-> IF CreateFails(profile) THEN deleted
                              ELSE {NewRecommendation(user, profile, date, meal_type,
                                                      ai_response.items, target_calories, t)},
                     calls |-> 1, raised |-> FALSE]

\* the slots whose stored row is missing or expired: the ones a read at
\* time t calls the generator for
NeedGeneration(rows, user, date, t) ==
    {m \in SlotNames : ~ServedFromCache(rows, user, date, m, t)}

\* the chat call raises for no slot, for one slot, or for every slot that
\* reaches it
FailingChoices(need) == {{}, need} \cup {{m} : m \in need}

\* the generator's circumstances for one slot of a read: client (is the
\* OpenAI client initialised), failing (slots whose chat call raises), raw
\* (the text the chat call returns otherwise)
EnvOf(m, client, failing, raw) == [client |-> client, api_ok |-> m \notin failing, raw |-> raw]

\* MealRecommendationsView.get for a parseable date
MealRecommendations_get(user, date, client, failing, raw) ==
    /\ nops < MaxReads
    /\ UNCHANGED <<entries, summaries, profiles, nextId, now, running, procs, weekly>>
    /\ nops' = nops + 1
    /\ LET profile == profiles[user]
           before == {r \in recs : r.user = user /\ r.date = date}
       IN  IF ~profile.exists THEN
               /\ last' = Response("recommendations", user, 400, <<date, client, failing, raw>>, 0, before, {})
               /\ UNCHANGED <<recs, gen_calls>>
           ELSE
           \E pass \in {[m \in SlotNames |->
                           SlotPass(recs, user, profile, date, m,
                                    EnvOf(m, client, failing, raw), now)]} :
               LET raising == {i \in 1..Len(meal_types) : pass[meal_types[i]].raised}
               IN  IF raising = {} THEN
                       /\ recs' = (recs \ before) \cup UNION {pass[m].rows : m \in SlotNames}
                       /\ gen_calls' = [m \in SlotNames |-> pass[m].calls]
                       /\ last' = [Response("recommendations", user, 200,
                                            <<date, client, failing, raw>>, 0, before, {})
                                     EXCEPT !.body = [i \in 1..Len(meal_types) |->
                                                         pass[meal_types[i]].result]]
                   ELSE
                       \* the exception leaves the loop at the first such slot:
                       \* the slots before it are done, the ones after untouched
                       LET k == CHOOSE i \in raising : \A j \in raising : i <= j
                           done(i) == IF i <= k THEN pass[meal_types[i]].rows
                                      ELSE RecOf(recs, user, date, meal_types[i])
                       IN  /\ recs' = (recs \ before) \cup
                                       UNION {done(i) : i \in 1..Len(meal_types)}
                           /\ gen_calls' = [m \in SlotNames |->
                                  IF \E i \in 1..k : meal_types[i] = m
                                  THEN pass[m].calls ELSE 0]
                           /\ last' = Response("recommendations", user, 500,
                                               <<date, client, failing, raw>>, 0, before, {})

\* time passes
TickDays == {1, 6}
Tick(days) ==
    /\ now + days <= MaxNow
    /\ now' = now + days
    /\ UNCHANGED <<entries, summaries, profiles, nextId, running, last, nops, procs,
                   recs, gen_calls, weekly>>

InitRec ==
    /\ entries = {}
    /\ summaries = {}
    /\ profiles \in InitProfiles
    /\ nextId = 1
    /\ now = 2
    /\ running = [u \in Users |-> [d \in Dates |-> ZeroMacros]]
    /\ last = NoResponse
    /\ nops = 0
    /\ procs = <<>>
    /\ recs = {}
    /\ gen_calls = [m \in SlotNames |-> 0]
    /\ weekly = {}

NextRec ==
    \/ \E raw \in RawResponses :
         \E failing \in FailingChoices(NeedGeneration(recs, "u1", 2, now)) :
           MealRecommendations_get("u1", 2, TRUE, failing, raw)
    \/ MealRecommendations_get("u1", 2, FALSE, {}, TextResponse)
    \/ MealRecommendations_get("u2", 2, TRUE, {}, TextResponse)
    \/ \E days \in TickDays : Tick(days)

SpecRec == InitRec /\ [][NextRec]_vars

\* reads of two dates under every kind of generator response
NextGen ==
    \/ \E date \in Dates : \E raw \in RawResponses \cup {LooseNumbersResponse} :
         MealRecommendations_get("u1", date, TRUE, {}, raw)
    \/ \E days \in TickDays : Tick(days)

SpecGen == InitRec /\ [][NextGen]_vars

\* reads of one date while the profile is edited and time passes; the chat
\* call raises for no slot or for Lunch, and returns items that are objects
\* or items that are strings
NextSnap ==
    \/ \E raw \in {JsonResponse, StringItemsResponse} :
         \E failing \in {{}, {"Lunch"}} :
           MealRecommendations_get("u1", 2, TRUE, failing, raw)
    \/ \E data \in ProfileEdits : ProfileOverview_put("u1", data)
    \/ \E days \in TickDays : Tick(days)

SpecSnap == InitRec /\ [][NextSnap]_vars

\* a read of day 2 in which the client is initialised, no chat call raises
\* and the reply is JSON with object items
SuccessfulRead == MealRecommendations_get("u1", 2, TRUE, {}, JsonResponse)

\* reads of one date that may fail, while one more read stays possible
NextRetry ==
    \/ SuccessfulRead
    \/ /\ nops < MaxReads - 1
       /\ \E failing \in FailingChoices(NeedGeneration(recs, "u1", 2, now)) \ {{}} :
            MealRecommendations_get("u1", 2, TRUE, failing, JsonResponse)
    \/ /\ nops < MaxReads - 1
       /\ MealRecommendations_get("u1", 2, FALSE, {}, JsonResponse)
    \/ \E days \in TickDays : Tick(days)

\* the client keeps reading: a read in which the generator succeeds is not
\* put off forever
SpecRetry == InitRec /\ [][NextRetry]_vars /\ WF_vars(SuccessfulRead)

----------------------------------------------------------------------------
(* Two reads of the day's recommendations in flight at once: the pass of the
   loop body for one slot, statement by statement *)

Readers == {"p1", "p2"}

\* the slots the two reads meet on
ReadSlots == {"Breakfast", "Lunch"}

ReadIdle == [pc |-> "idle", user |-> "", date |-> 0, meal_type |-> "",
             meal_rec |-> NoRow, gen |-> "none", items |-> <<>>,
             result |-> <<>>, status |-> 0]

\* a row with its primary key
WithId(row, id) == [f \in DOMAIN row \cup {"id"} |-> IF f = "id" THEN id ELSE row[f]]

\* a table without the constraint: no INSERT is refused
NoUniqueConstraint(rows, user, date, meal_type) == FALSE

\* unique_together (user, date, meal_type): an INSERT for a key that has a
\* row raises IntegrityError
UniqueViolation(rows, user, date, meal_type) == RecOf(rows, user, date, meal_type) # {}

ReadFrame == UNCHANGED <<entries, summaries, profiles, now, running, last, nops,
                         gen_calls, weekly>>

\* the loop reaches the slot
ReadBegin(p, user, date, meal_type) ==
    /\ procs[p].pc = "idle"
    /\ procs' = [procs EXCEPT ![p] = [ReadIdle EXCEPT !.pc = "get", !.user = user,
                                                      !.date = date, !.meal_type = meal_type]]
    /\ ReadFrame /\ UNCHANGED <<recs, nextId>>

\* lines 890-907: SELECT of the key's row, then is_valid() on the object
ReadGet(p) ==
    /\ procs[p].pc = "get"
    /\ LET me == procs[p]
           found == RecOf(recs, me.user, me.date, me.meal_type)
       IN  procs' = [procs EXCEPT ![p] =
               IF found = {} THEN [me EXCEPT !.pc = "generate"]
               ELSE LET meal_rec == CHOOSE x \in found : TRUE
                    IN  IF is_valid(meal_rec, now) THEN
                            [me EXCEPT !.pc = "done", !.status = 200, !.meal_rec = meal_rec,
                                       !.result = SlotResult(me.meal_type, "", TRUE,
                                           meal_rec.created_at, meal_rec.items_json,
                                           meal_rec.goal, meal_rec.diet_preference,
                                           meal_rec.health_conditions,
                                           meal_rec.target_calories)]
                        ELSE [me EXCEPT !.pc = "delete", !.meal_rec = meal_rec]]
    /\ ReadFrame /\ UNCHANGED <<recs, nextId>>

\* line 912: meal_rec.delete(), a DELETE by primary key
ReadDelete(p) ==
    /\ procs[p].pc = "delete"
    /\ recs' = {x \in recs : x.id # procs[p].meal_rec.id}
    /\ procs' = [procs EXCEPT ![p].pc = "generate"]
    /\ ReadFrame /\ UNCHANGED nextId

\* lines 916-925: the generator is called; an error result ends the pass
ReadGenerate(p, api_ok, raw) ==
    /\ procs[p].pc = "generate"
    /\ LET me == procs[p]
           ai_response == recommend_meals_for_user([client |-> TRUE, api_ok |-> api_ok,
                                                    raw |-> raw])
       IN  procs' = [procs EXCEPT ![p] =
               IF ai_response.error # "" THEN
                   [me EXCEPT !.pc = "done", !.status = 200, !.gen = "error",
                              !.result = SlotResult(me.meal_type, ai_response.error, FALSE,
                                                    0, <<>>, "", "", {}, 0)]
               ELSE IF ai_response.raised THEN
                   [me EXCEPT !.pc = "done", !.status = 500, !.gen = "raised"]
               ELSE [me EXCEPT !.pc = "create", !.gen = "ok", !.items = ai_response.items]]
    /\ ReadFrame /\ UNCHANGED <<recs, nextId>>

\* lines 927-956: objects.create inside try/except Exception, then the
\* result is appended whether or not the row was stored
ReadCreate(p) ==
    /\ procs[p].pc = "create"
    /\ LET me == procs[p]
           profile == profiles[me.user]
           target_calories == slot_target_calories(profile, me.meal_type)
           refused == \/ CreateFails(profile)
                      \/ UniqueViolation(recs, me.user, me.date, me.meal_type)
       IN  /\ recs' = IF refused THEN recs
                      ELSE recs \cup {WithId(NewRecommendation(me.user, profile, me.date,
                                             me.meal_type, me.items, target_calories, now),
                                             nextId)}
           /\ nextId' = IF refused THEN nextId ELSE nextId + 1
           /\ procs' = [procs EXCEPT ![p] =
                  [me EXCEPT !.pc = "done", !.status = 200,
                             !.result = SlotResult(me.meal_type, "", FALSE, now, me.items,
                                            profile.goal, profile.diet_preference,
                                            profile.health_conditions, target_calories)]]
    /\ ReadFrame

\* the row an earlier read of day 2 stored for Lunch on day 2
StoredLunch ==
    WithId(NewRecommendation("u1", MaleProfile, 2, "Lunch",
                             recommend_meals_for_user(EnvOf("Lunch", TRUE, {}, JsonResponse)).items,
                             slot_target_calories(MaleProfile, "Lunch"), 2), 1)

\* the key is missing, or stored and (on day 9) expired, or (on day 3) valid
InitReads ==
    /\ entries = {}
    /\ summaries = {}
    /\ profiles \in InitProfiles
    /\ now \in {3, 9}
    /\ running = [u \in Users |-> [d \in Dates |-> ZeroMacros]]
    /\ last = NoResponse
    /\ nops = 0
    /\ procs = [p \in Readers |-> ReadIdle]
    /\ \/ recs = {} /\ nextId = 1
       \/ recs = {StoredLunch} /\ nextId = 2 /\ profiles["u1"] = MaleProfile
    /\ gen_calls = [m \in SlotNames |-> 0]
    /\ weekly = {}

NextReads ==
    \/ \E p \in Readers : \E meal_type \in ReadSlots : ReadBegin(p, "u1", 2, meal_type)
    \/ \E p \in Readers : ReadGet(p)
    \/ \E p \in Readers : ReadDelete(p)
    \/ \E p \in Readers : \E api_ok \in BOOLEAN :
         \E raw \in {JsonResponse, StringItemsResponse} : ReadGenerate(p, api_ok, raw)
    \/ \E p \in Readers : ReadCreate(p)

SpecReads == InitReads /\ [][NextReads]_vars

----------------------------------------------------------------------------
(* WeeklyCache: WeeklyMealRecommendation rows and WeeklyMealRecommendationView *)

\* recommendations_data of a row get_or_create has just inserted: no day key
EmptyWeek == <<>>

WeekDays == 7

WeeklyOf(rows, user, monday) ==
    {w \in rows : w.user = user /\ w.week_start_date = monday}

\* the generator calls of one access, in the order the loops make them:
\* day offset i (0..6), then slot j (1..5)
CallOrder(i, j) == i * Len(meal_types) + j

\* the chat call raises for no call, for one call, for two calls, or for
\* every call of the access
WeekFailingChoices ==
    {{}, {<<0, "Breakfast">>}, {<<2, "Lunch">>, <<6, "Dinner">>},
     (0..(WeekDays - 1)) \X SlotNames}

WeekEnvOf(i, m, client, failing, raw) ==
    [client |-> client, api_ok |-> <<i, m>> \notin failing, raw |-> raw]

\* WeeklyMealRecommendationView.get for a parseable week_start_date
WeeklyMealRecommendation_get(user, monday, client, failing, raw) ==
    /\ nops < MaxReads
    /\ UNCHANGED <<entries, summaries, profiles, nextId, now, running, procs, recs>>
    /\ nops' = nops + 1
    /\ LET profile == profiles[user]
           before == WeeklyOf(weekly, user, monday)
           created == before = {}
           weekly_rec == IF created
                         THEN [user |-> user, week_start_date |-> monday,
                               recommendations_data |-> EmptyWeek]
                         ELSE CHOOSE w \in before : TRUE
           answer(code, data) ==
               [Response("weekly", user, code, <<monday, client, failing>>, 0, before, {})
                  EXCEPT !.body = data]
       IN  IF ~profile.exists THEN
               /\ last' = answer(400, EmptyWeek)
               /\ UNCHANGED <<weekly, gen_calls>>
           ELSE IF ~(weekly_rec.recommendations_data = EmptyWeek \/ created) THEN
               /\ last' = answer(200, weekly_rec.recommendations_data)
               /\ gen_calls' = [m \in SlotNames |-> 0]
               /\ UNCHANGED weekly
           ELSE
           \E ai_resp \in {[i \in 0..(WeekDays - 1) |-> [m \in SlotNames |->
                              recommend_meals_for_user(
                                  WeekEnvOf(i, m, client, failing, raw))]]} :
               LET raising == {CallOrder(y[1], y[2]) :
                                 y \in {z \in (0..(WeekDays - 1)) \X (1..Len(meal_types)) :
                                          ai_resp[z[1]][meal_types[z[2]]].raised}}
                   week_data == [d \in monday..(monday + WeekDays - 1) |->
                                    [m \in SlotNames |-> ai_resp[d - monday][m].items]]
               IN  IF raising = {} THEN
                       /\ weekly' = (weekly \ before) \cup
                                    {[weekly_rec EXCEPT !.recommendations_data = week_data]}
                       /\ gen_calls' = [m \in SlotNames |-> WeekDays]
                       /\ last' = answer(200, week_data)
                   ELSE
                       \* the exception leaves the loops: the row get_or_create
                       \* inserted stays as it is, week_data is dropped
                       LET k == CHOOSE c \in raising : \A c2 \in raising : c <= c2
                       IN  /\ weekly' = (weekly \ before) \cup {weekly_rec}
                           /\ gen_calls' = [m \in SlotNames |->
                                  Cardinality({i \in 0..(WeekDays - 1) :
                                      \E j \in 1..Len(meal_types) :
                                          /\ meal_types[j] = m
                                          /\ CallOrder(i, j) <= k})]
                           /\ last' = answer(500, EmptyWeek)

Mondays == {1, 8}

NextWeek ==
    \/ \E monday \in Mondays, client \in BOOLEAN, failing \in WeekFailingChoices,
          raw \in RawResponses :
         WeeklyMealRecommendation_get("u1", monday, client, failing, raw)
    \/ WeeklyMealRecommendation_get("u2", 1, TRUE, {}, JsonResponse)

SpecWeek == InitRec /\ [][NextWeek]_vars

\* a step that answers a read of a week's recommendations of a user who has
\* a profile
WeekReadStep ==
    /\ nops' = nops + 1
    /\ last'.op = "weekly"
    /\ last'.status # 400

\* the generator failed for slot m of some day in the read `resp` answered
WeekFailedFor(resp, m) ==
    ~resp.req[2] \/ \E i \in 0..(WeekDays - 1) : <<i, m>> \in resp.req[3]

\* C11: a generation failure is never cached: after a weekly read in which
\* the generator failed for some slot, a later read of the same
\* (user, week_start) calls the generator again for that slot instead of
\* returning the stored failure result.
C11_WeeklyFailureRetried ==
    [][(/\ WeekReadStep
        /\ last.op = "weekly" /\ last.status = 200
        /\ last.user = last'.user /\ last.req[1] = last'.req[1])
       => \A m \in SlotNames :
            (gen_calls[m] > 0 /\ WeekFailedFor(last, m)) => gen_calls'[m] > 0]_vars

\* C12: the first access for a (user, week_start) creates the record and
\* populates it in that same access with exactly 7 day keys each holding all
\* 5 slots, one generator call per slot, a failed call stored as an empty
\* item list; every later access for that week returns the stored structure
\* without calling the generator.
C12_WeekPopulatedOnce ==
    [][WeekReadStep =>
        LET user == last'.user
            monday == last'.req[1]
            before == WeeklyOf(weekly, user, monday)
            after == WeeklyOf(weekly', user, monday)
        IN  IF before = {} THEN
                /\ Cardinality(after) = 1
                /\ \A w \in after :
                     /\ DOMAIN w.recommendations_data = monday..(monday + 6)
                     /\ \A d \in DOMAIN w.recommendations_data :
                          /\ DOMAIN w.recommendations_data[d] = SlotNames
                          /\ \A m \in SlotNames :
                               (~last'.req[2] \/ <<d - monday, m>> \in last'.req[3])
                                  => w.recommendations_data[d][m] = <<>>
                     /\ last'.body = w.recommendations_data
                /\ \A m \in SlotNames : gen_calls'[m] = 7
            ELSE
                /\ after = before
                /\ \A w \in before : last'.body = w.recommendations_data
                /\ \A m \in SlotNames : gen_calls'[m] = 0
    ]_vars

\* ---------------------------------------------------------------------
\* Properties of the recommendation cache
\* ---------------------------------------------------------------------

\* a step that answers a read of the day's recommendations with 200
ReadStep ==
    /\ nops' = nops + 1
    /\ last'.op = "recommendations"
    /\ last'.status = 200

\* the rows of the read's (user, date) before the read
StoredBefore == {x \in recs : x.user = last'.user /\ x.date = last'.req[1]}

\* the read's result for slot meal_type
ResultFor(meal_type) ==
    last'.body[CHOOSE i \in 1..Len(meal_types) : meal_types[i] = meal_type]

\* C7: a record created at time T is returned with cached=true and its
\* original timestamp by a read at T+6 days, and is deleted and regenerated
\* (cached=false, new creation timestamp) by a read at T+8 days.
C7_ServedThenRegenerated ==
    [][ReadStep =>
        \A r \in StoredBefore :
          LET res == ResultFor(r.meal_type)
              after == RecOf(recs', r.user, r.date, r.meal_type)
          IN  /\ now = r.created_at + 6 =>
                    /\ res.error = "" /\ res.cached
                    /\ res.created_at = r.created_at
                    /\ after = {r}
                    /\ gen_calls'[r.meal_type] = 0
              /\ now = r.created_at + 8 =>
                    /\ r \notin recs'
                    /\ gen_calls'[r.meal_type] = 1
                    /\ res.error = "" =>
                         /\ ~res.cached /\ res.created_at = now
                         /\ \A x \in after : x.created_at = now
    ]_vars

\* the last read served one stored row at age 6 from the cache and
\* regenerated another at age 8
C7_Witness ==
    /\ last.op = "recommendations" /\ last.status = 200
    /\ \E r1, r2 \in last.before :
         /\ now = r1.created_at + 6 /\ now = r2.created_at + 8
         /\ \E i, j \in 1..Len(last.body) :
              /\ last.body[i].meal_type = r1.meal_type
              /\ last.body[i].cached /\ last.body[i].created_at = r1.created_at
              /\ r1 \in recs
              /\ last.body[j].meal_type = r2.meal_type
              /\ last.body[j].error = "" /\ ~last.body[j].cached
              /\ last.body[j].created_at = now
              /\ r2 \notin recs
              /\ \E x \in recs : x.meal_type = r2.meal_type /\ x.created_at = now

\* C8 as the code has it: a record is deleted and regenerated on a read
\* exactly when its age is 7 days or more; a read at any age below 7 days
\* returns the stored record unchanged.
C8_RegeneratedFromSevenDays ==
    [][ReadStep =>
        \A r \in StoredBefore :
          LET res == ResultFor(r.meal_type)
              after == RecOf(recs', r.user, r.date, r.meal_type)
          IN  /\ now - r.created_at < 7 =>
                    /\ res.error = "" /\ res.cached
                    /\ res.created_at = r.created_at
                    /\ after = {r}
                    /\ gen_calls'[r.meal_type] = 0
              /\ now - r.created_at >= 7 =>
                    /\ r \notin recs'
                    /\ gen_calls'[r.meal_type] = 1
                    /\ res.error = "" => ~res.cached /\ res.created_at = now
    ]_vars

\* the last read regenerated a row that was exactly 7 days old
C8_Witness ==
    /\ last.op = "recommendations" /\ last.status = 200
    /\ \E r \in last.before :
         /\ now = r.created_at + 7
         /\ r \notin recs
         /\ gen_calls[r.meal_type] = 1
         /\ \E i \in 1..Len(last.body) :
              /\ last.body[i].meal_type = r.meal_type
              /\ last.body[i].error = "" /\ ~last.body[i].cached
              /\ last.body[i].created_at = now

\* C8 as stated: a record is deleted and regenerated on a read exactly when
\* its age exceeds 7 days; a read at any age up to and including 7 days
\* returns the stored record unchanged, a read at any greater age
\* regenerates it.
C8_RegeneratedAfterSevenDays ==
    [][ReadStep =>
        \A r \in StoredBefore :
          LET res == ResultFor(r.meal_type)
              after == RecOf(recs', r.user, r.date, r.meal_type)
          IN  /\ now - r.created_at <= 7 =>
                    /\ res.error = "" /\ res.cached
                    /\ res.created_at = r.created_at
                    /\ after = {r}
              /\ now - r.created_at > 7 =>
                    /\ r \notin recs'
                    /\ gen_calls'[r.meal_type] = 1
    ]_vars

\* C9: on a read of a missing or expired key, if the generator reports an
\* error then no row exists for that key after the read, and every later
\* read of that key calls the generator again (no negative caching).
C9_NoNegativeCaching ==
    [][ReadStep =>
        \A i \in 1..Len(meal_types) :
          LET m == meal_types[i]
              before == RecOf(recs, last'.user, last'.req[1], m)
              after == RecOf(recs', last'.user, last'.req[1], m)
              res == last'.body[i]
              errored_before ==
                  /\ last.op = "recommendations" /\ last.status = 200
                  /\ last.user = last'.user /\ last.req[1] = last'.req[1]
                  /\ last.body[i].error # ""
          IN  /\ (\A r \in before : now - r.created_at >= 7) =>
                    /\ gen_calls'[m] = 1
                    /\ res.error # "" => after = {}
              /\ errored_before => gen_calls'[m] = 1
    ]_vars

\* the last read found an expired row, the generator reported an error,
\* and the key has no row now
C9_Witness ==
    /\ last.op = "recommendations" /\ last.status = 200
    /\ \E r \in last.before :
         /\ now - r.created_at >= 7
         /\ gen_calls[r.meal_type] = 1
         /\ RecOf(recs, r.user, r.date, r.meal_type) = {}
         /\ \E i \in 1..Len(last.body) :
              /\ last.body[i].meal_type = r.meal_type
              /\ last.body[i].error # ""

\* C10: a read returns exactly five slot results, one for each of
\* Breakfast, Brunch, Lunch, Evening Snacks and Dinner; each slot whose
\* generation fails yields an error result and every other slot yields its
\* own success result: cached, or freshly generated and persisted.
C10_FiveIndependentResults ==
    [][ReadStep =>
        /\ Len(last'.body) = 5
        /\ \A i \in 1..5 :
             LET m == meal_types[i]
                 res == last'.body[i]
                 before == RecOf(recs, last'.user, last'.req[1], m)
                 after == RecOf(recs', last'.user, last'.req[1], m)
                 cached == \E r \in before : now - r.created_at < 7
                 fails == ~cached /\ (~last'.req[2] \/ m \in last'.req[3])
             IN  /\ res.meal_type = m
                 /\ fails => res.error # ""
                 /\ ~fails =>
                      /\ res.error = ""
                      /\ \/ res.cached /\ after = before
                         \/ /\ ~res.cached
                            /\ \E x \in after : /\ x.created_at = now
                                                /\ x.items_json = res.items
    ]_vars


----------------------------------------------------------------------------
(* TargetCalculator applied to stored profiles *)

\* stored combinations of age, weight, weight unit, height, gender, goal and
\* diet preference; FloatField and PositiveIntegerField hold any such number
ProfileAges == {NoneNum, R(30), R(80)}
ProfileWeights == {NoneNum, R(70), R(50)}
ProfileUnits == {"kg", "lbs"}
ProfileHeights == {NoneNum, R(175), Rat(16, 10)}
ProfileGenders == {NoneStr, "Male", "Female"}
ProfileGoals == {NoneStr, "Weight Loss", "Weight Gain", "Muscle Gain"}
ProfileDiets == {NoneStr, "Non-Veg"}

\* the conditions the lookup knows, and one it does not
ProfileConditions == {"Diabetes", "High Blood Pressure", "Thyroid Issues", "PCOS"}

StoredProfiles ==
    {EmptyProfile} \cup
    {[MaleProfile EXCEPT !.health_conditions = hc] : hc \in SUBSET ProfileConditions} \cup
    {[MaleProfile EXCEPT !.age = a, !.weight = w, !.weight_unit = wu, !.height_cm = h,
                         !.gender = g, !.goal = go, !.diet_preference = dp] :
        a \in ProfileAges, w \in ProfileWeights, wu \in ProfileUnits,
        h \in ProfileHeights, g \in ProfileGenders, go \in ProfileGoals,
        dp \in ProfileDiets}

InitCalc ==
    /\ entries = {}
    /\ summaries = {}
    /\ profiles \in {[u \in Users |-> IF u = "u1" THEN p ELSE NoProfile] :
                        p \in StoredProfiles}
    /\ nextId = 1
    /\ now = 2
    /\ running = [u \in Users |-> [d \in Dates |-> ZeroMacros]]
    /\ last = NoResponse
    /\ nops = 0
    /\ procs = <<>>
    /\ recs = {}
    /\ gen_calls = [m \in SlotNames |-> 0]
    /\ weekly = {}

\* a call of calculate_nutrition_targets(user); a raised TypeError is status 500
ComputeTargets(user) ==
    /\ nops < MaxOps
    /\ UNCHANGED <<entries, summaries, profiles, nextId, now, running, procs, recs,
                   gen_calls, weekly>>
    /\ LET targets == calculate_nutrition_targets(profiles[user])
           resp(code) == Response("targets", user, code, <<>>, 0, {}, {})
       IN  IF targets.error THEN Served(resp(500))
           ELSE Served([resp(200) EXCEPT !.body = targets])

\* a call of _calculate_target_calories(profile, meal_type)
ComputeSlotTarget(user, meal_type) ==
    /\ nops < MaxOps
    /\ UNCHANGED <<entries, summaries, profiles, nextId, now, running, procs, recs,
                   gen_calls, weekly>>
    /\ Served([Response("slot_target", user, 200, <<meal_type>>, 0, {}, {})
                 EXCEPT !.body = calculate_target_calories(profiles[user], meal_type)])

NextCalc ==
    \/ ComputeTargets("u1")
    \/ \E meal_type \in SlotNames : ComputeSlotTarget("u1", meal_type)

SpecCalc == InitCalc /\ [][NextCalc]_vars

TargetsReturned == last.op = "targets" /\ last.status = 200

\* C17: for every stored profile the calorie target returned by
\* calculate_nutrition_targets depends on the profile only (two calls with
\* the same profile return the same values) and is non-negative.
C17_CaloriesDeterministicNonNegative ==
    [][(last'.op = "targets" /\ last'.status = 200) =>
         /\ RLe(R(0), last'.body.calories_target)
         /\ (TargetsReturned /\ profiles' = profiles) => last'.body = last.body
    ]_vars

\* the profile of the worked example: Male, 30 years, 70 kg, 175 cm
ExampleProfile(profile) ==
    /\ profile.gender = "Male"
    /\ profile.age = R(30)
    /\ profile.weight = R(70)
    /\ profile.weight_unit = "kg"
    /\ profile.height_cm = R(175)

\* C18 as stated: for gender Male, age 30, weight 70 kg, height 175 cm the
\* daily calorie target returned is 2594.
C18_ExampleTarget2594 ==
    (TargetsReturned /\ ExampleProfile(profiles[last.user]))
       => last.body.calories_target = R(2594)

\* C18: for gender Male, age 30, weight 70 kg, height 175 cm the daily
\* calorie target returned is floor((10*70 + 6.25*175 - 5*30 + 5) * 1.55)
\* = floor(1648.75 * 1.55) = 2555.
C18_ExampleTarget2555 ==
    (TargetsReturned /\ ExampleProfile(profiles[last.user]))
       => last.body.calories_target = R(2555)

C18_Witness ==
    /\ TargetsReturned
    /\ ExampleProfile(profiles[last.user])
    /\ last.body.calories_target = R(2555)

\* the Harris-Benedict BMR of a profile with every field present
HarrisBenedict(profile) ==
    IF profile.gender = "Female"
    THEN RSub(RAdd(RAdd(R(655), RMul(Rat(96, 10), profile.weight)),
                   RMul(Rat(18, 10), profile.height_cm)), RMul(Rat(47, 10), profile.age))
    ELSE RSub(RAdd(RAdd(R(88), RMul(Rat(134, 10), profile.weight)),
                   RMul(Rat(48, 10), profile.height_cm)), RMul(Rat(57, 10), profile.age))

GoalMultiplier(goal) ==
    CASE goal = "Weight Loss" -> Rat(14, 10)
      [] goal = "Weight Gain" -> Rat(16, 10)
      [] goal = "Muscle Gain" -> Rat(15, 10)

SlotFraction ==
    [m \in SlotNames |->
       CASE m = "Breakfast" -> Rat(25, 100)
         [] m = "Brunch" -> Rat(15, 100)
         [] m = "Lunch" -> Rat(35, 100)
         [] m = "Evening Snacks" -> Rat(10, 100)
         [] m = "Dinner" -> Rat(30, 100)]

\* floor of a rational
Floor(a) == a[1] \div a[2]

\* a profile with weight in kg, height, age, gender and goal all present
CompleteProfile(profile) ==
    /\ profile.weight # NoneNum /\ profile.weight_unit = "kg"
    /\ profile.height_cm # NoneNum
    /\ profile.age # NoneNum
    /\ profile.gender \in {"Male", "Female"}
    /\ profile.goal # NoneStr

SlotTargetReturned == last.op = "slot_target" /\ last.status = 200

WithDefaults(profile) ==
    [profile EXCEPT
       !.age = IF @ = NoneNum THEN R(30) ELSE @,
       !.height_cm = IF @ = NoneNum THEN R(170) ELSE @,
       !.weight = IF @ = NoneNum THEN R(70) ELSE @,
       !.weight_unit = IF profile.weight = NoneNum THEN "kg" ELSE @,
       !.gender = IF @ = NoneStr THEN "Male" ELSE @,
       !.diet_preference = IF @ = NoneStr THEN "Non-Veg" ELSE @]

SomeFieldMissing(profile) ==
    \/ profile.age = NoneNum
    \/ profile.height_cm = NoneNum
    \/ profile.weight = NoneNum
    \/ profile.gender = NoneStr
    \/ profile.diet_preference = NoneStr

\* C20: for every existing profile in which any of age, height, weight,
\* gender or diet_preference is missing, calculate_nutrition_targets
\* completes without error and returns the targets computed with the
\* defaults age 30, height 170 cm, weight 70 kg, gender Male,
\* diet_preference Non-Veg in place of the missing fields; this includes the
\* empty profile created by a profile-overview read before onboarding.
C20_DefaultsForMissingFields ==
    (last.op = "targets" /\ SomeFieldMissing(profiles[last.user])) =>
       /\ last.status = 200
       /\ last.body = calculate_nutrition_targets(WithDefaults(profiles[last.user]))

NumericFields == {"calories", "protein_g", "carbs_g", "fats_g"}

\* C24: every numeric field (calories, protein_g, carbs_g, fats_g) of every
\* item persisted in a RecommendationRecord is a number, also when the
\* generator returned it as a string, as a range such as "250-300"
\* (persisted as the average, 275), with a unit suffix, or omitted it.
C24_PersistedNumbers ==
    \A r \in recs :
      \A i \in 1..Len(r.items_json) :
        /\ \A f \in NumericFields : r.items_json[i][f].kind = "num"
        /\ r.items_json[i].name = Str("Poha") => r.items_json[i].calories = Num(R(275))

\* the multiplier of the first condition, in the order Diabetes, High Blood
\* Pressure, Thyroid Issues, that the profile lists
FirstMatchMultiplier(conditions) ==
    LET order == <<"Diabetes", "High Blood Pressure", "Thyroid Issues">>
        value == <<Rat(11, 10), Rat(95, 100), Rat(105, 100)>>
        hits == {i \in 1..3 : order[i] \in conditions}
    IN  IF hits = {} THEN R(1)
        ELSE value[CHOOSE i \in hits : \A j \in hits : i <= j]

\* C26: the protein health multiplier is chosen by first match in the order
\* Diabetes (1.1), High Blood Pressure (0.95), Thyroid Issues (1.05),
\* otherwise 1.0: for every subset of conditions the protein target is
\* 1.6 g per kg times the multiplier of the highest-priority condition only.
C26_FirstMatchWins ==
    (/\ TargetsReturned
     /\ profiles[last.user].weight # NoneNum
     /\ profiles[last.user].weight_unit = "kg"
     /\ profiles[last.user].diet_preference \in {NoneStr, "Non-Veg"})
    => last.body.protein_target =
         PyRound1(RMul(RMul(profiles[last.user].weight, Rat(16, 10)),
                       FirstMatchMultiplier(profiles[last.user].health_conditions)))

\* targets returned for a profile that lists all three conditions
C26_Witness ==
    /\ TargetsReturned
    /\ {"Diabetes", "High Blood Pressure", "Thyroid Issues"}
          \subseteq profiles[last.user].health_conditions
    /\ last.body.protein_target = Rat(1232, 10)


\* a step that answers a read of the day's recommendations, with 200 or
\* with the 500 of an exception in some slot's generation
ReadAttempt ==
    /\ nops' = nops + 1
    /\ last'.op = "recommendations"
    /\ last'.status \in {200, 500}

\* the rows of the read's (user, date) that are younger than the cache period
ValidBefore == {r \in StoredBefore : now < r.created_at + CacheDays}

\* C30: a read of a valid (user, date, slot) key does not call the
\* generator and does not modify the row, and the read's answer carries for
\* that slot the stored items, the stored profile snapshot (goal, diet
\* preference, health conditions), the stored target_calories and the stored
\* creation timestamp, marked cached=true, whatever the user's profile is
\* at the time of the read.
C30_ValidServedVerbatim ==
    [][/\ ReadAttempt =>
            \A r \in ValidBefore :
                /\ gen_calls'[r.meal_type] = 0
                /\ RecOf(recs', r.user, r.date, r.meal_type) = {r}
       /\ ReadStep =>
            \A r \in ValidBefore :
                LET res == ResultFor(r.meal_type)
                IN  /\ res.error = "" /\ res.cached
                    /\ res.items = r.items_json
                    /\ res.goal = r.goal
                    /\ res.diet_preference = r.diet_preference
                    /\ res.health_conditions = r.health_conditions
                    /\ res.target_calories = r.target_calories
                    /\ res.created_at = r.created_at
    ]_vars

\* the last read served a slot from a row whose snapshot and target differ
\* from what the profile, edited since, would give now
C30_Witness ==
    /\ last.op = "recommendations" /\ last.status = 200
    /\ \E r \in last.before :
         /\ r \in recs
         /\ r.goal # profiles[r.user].goal
         /\ r.health_conditions # profiles[r.user].health_conditions
         /\ r.target_calories # calculate_target_calories(profiles[r.user], r.meal_type)
         /\ \E i \in 1..Len(last.body) :
              /\ last.body[i].meal_type = r.meal_type
              /\ last.body[i].cached
              /\ last.body[i].goal = r.goal
              /\ last.body[i].target_calories = r.target_calories

\* the rows of the read's (user, date) that are expired at the read
ExpiredBefore == {r \in StoredBefore : now - r.created_at >= CacheDays}

\* the generator fails for slot meal_type in the read being answered: the
\* client is not initialised, or the chat call raises
GeneratorFails(meal_type) == ~last'.req[2] \/ meal_type \in last'.req[3]

\* C31: when a read finds an expired record and the generator then fails,
\* the expired row has already been deleted: the read reports an error for
\* that slot and serves no items for it, and no row exists for the key
\* afterwards; and no read, then or later, serves a slot from the cache
\* except from a stored row that has not expired, with that row's items.
C31_ExpiredDeletedBeforeFailure ==
    [][/\ ReadAttempt =>
            \A r \in ExpiredBefore :
                (gen_calls'[r.meal_type] = 1 /\ GeneratorFails(r.meal_type))
                => RecOf(recs', r.user, r.date, r.meal_type) = {}
       /\ ReadStep =>
            /\ \A r \in ExpiredBefore :
                   GeneratorFails(r.meal_type)
                   => LET res == ResultFor(r.meal_type)
                      IN  /\ res.error # "" /\ ~res.cached
                          /\ res.items = <<>>
                          /\ gen_calls'[r.meal_type] = 1
                          /\ RecOf(recs', r.user, r.date, r.meal_type) = {}
            /\ \A i \in 1..Len(last'.body) :
                   last'.body[i].cached
                   => \E x \in StoredBefore \ ExpiredBefore :
                        /\ x.meal_type = last'.body[i].meal_type
                        /\ x.items_json = last'.body[i].items
                        /\ x.created_at = last'.body[i].created_at
    ]_vars

\* the last read found an expired row for a slot whose generation failed:
\* the slot's result is an error and the key has no row
C31_Witness ==
    /\ last.op = "recommendations" /\ last.status = 200
    /\ \E r \in last.before :
         /\ now - r.created_at >= CacheDays
         /\ r.meal_type \in last.req[3]
         /\ RecOf(recs, r.user, r.date, r.meal_type) = {}
         /\ \E i \in 1..Len(last.body) :
              /\ last.body[i].meal_type = r.meal_type
              /\ last.body[i].error # ""

\* a step that answers the weekly report, the monthly report or the
\* calories trend
RollupStep ==
    /\ nops' = nops + 1
    /\ last'.op \in {"weekly_report", "monthly_report", "calories_trend"}

\* C32: the weekly report, the monthly report and the calories trend are
\* read-only: they create, update and delete no MealEntry and no
\* DailySummary row, also when days of the window have no DailySummary row.
C32_RollupsReadOnly ==
    [][RollupStep => entries' = entries /\ summaries' = summaries]_vars

\* a weekly report answered for a window with a stored day and a day that
\* has no row
C32_Witness ==
    /\ last.op = "weekly_report" /\ last.status = 200
    /\ \E d1, d2 \in last.req[1]..last.req[2] :
         /\ SummaryOf(summaries, last.user, d1) # {}
         /\ SummaryOf(summaries, last.user, d2) = {}

\* every slot of u1's day 2 has a stored row that has not expired
AllValid == \A m \in SlotNames : ServedFromCache(recs, "u1", 2, m, now)

\* within one read the generator is called at most once per slot, and not
\* at all for a slot whose row is valid
CalledAtMostOnce ==
    [][ReadAttempt =>
         \A m \in SlotNames :
             /\ gen_calls'[m] \in {0, 1}
             /\ ServedFromCache(recs, last'.user, last'.req[1], m, now) => gen_calls'[m] = 0
    ]_vars

\* C33: within one read the generator is called at most once per missing
\* or expired slot (no retry inside the read); and when reads of the key
\* keep occurring and the generator eventually succeeds, the key eventually
\* becomes valid, whatever failures came before.
C33_RetryOnNextRead == CalledAtMostOnce /\ <>AllValid

\* C34: after any sequence of add (positive quantities, non-negative
\* macros), remove, toggle and dashboard-today requests, every consumed
\* total of every DailySummary row (calories, protein, carbs, fats) is
\* greater than or equal to 0.
C34_ConsumedNonNegative ==
    \A s \in summaries : \A m \in Macros : RLe(R(0), Consumed(s)[m])

\* C35: after any sequence of add and remove requests every stored
\* MealEntry row has a quantity greater than 0: an add with quantity 0 or
\* less leaves no row with quantity <= 0, and a remove that brings the
\* quantity to 0 deletes the row.
C35_QuantityPositive ==
    \A e \in entries : RLt(R(0), e.quantity)

\* C36: a toggle_eaten request, through the POST or the PATCH handler, that
\* names an entry of another user is answered NotFound (404) and leaves
\* that entry's eaten flag, every other entry and every DailySummary row
\* unchanged.
C36_ToggleOwnEntriesOnly ==
    [][(/\ nops' = nops + 1
        /\ last'.op \in {"toggle", "toggle_post"}
        /\ \E e \in entries : e.id = last'.id /\ e.user # last'.user)
       => /\ last'.status = 404
          /\ entries' = entries
          /\ summaries' = summaries]_vars

\* C37: when two recommendation reads of the same (user, date, slot)
\* interleave on a missing or expired key, at most one MealRecommendation
\* row exists for the key at any time, and each read whose generator call
\* succeeded (or that needed none) ends with a non-error result for the
\* slot.
C37_InterleavedReads ==
    /\ \A m \in SlotNames : Cardinality(RecOf(recs, "u1", 2, m)) <= 1
    /\ \A p \in Readers :
         (procs[p].pc = "done" /\ procs[p].gen \in {"none", "ok"})
         => /\ procs[p].status = 200
            /\ procs[p].result.error = ""

\* both reads found the same expired row, both deleted it and called the
\* generator with success, both ended with a non-error result, and the key
\* has one row, created now
C37_Witness ==
    /\ \A p \in Readers :
         /\ procs[p].pc = "done" /\ procs[p].gen = "ok"
         /\ procs[p].meal_rec = StoredLunch
         /\ procs[p].result.error = "" /\ ~procs[p].result.cached
    /\ Cardinality(RecOf(recs, "u1", 2, "Lunch")) = 1
    /\ \A x \in RecOf(recs, "u1", 2, "Lunch") : x.created_at = now

\* the slots the read being answered generated with a reply that is not JSON
GeneratedFromText ==
    IF last'.req[4].json \/ ~last'.req[2] THEN {}
    ELSE {m \in SlotNames \ last'.req[3] :
             ~ServedFromCache(recs, last'.user, last'.req[1], m, now)}

\* the items of a reply that is not JSON: one item named by the raw text,
\* with macros 0
IsRawTextItems(items, text) ==
    /\ Len(items) = 1
    /\ items[1].name = Str(text)
    /\ \A f \in NumericFields : items[1][f] = Num(R(0))

\* C38: when the generator's reply is not valid JSON, the slot's result has
\* no error and a single item whose name is the raw text and whose macros
\* are 0, and the read stores it as a valid record; a later read within the
\* cache period serves that record as cached and does not call the
\* generator again.
C38_RawTextCached ==
    [][ReadStep =>
        /\ \A m \in GeneratedFromText :
              LET res == ResultFor(m)
                  after == RecOf(recs', last'.user, last'.req[1], m)
              IN  /\ res.error = "" /\ ~res.cached
                  /\ IsRawTextItems(res.items, last'.req[4].text)
                  /\ after # {}
                  /\ \A x \in after :
                       /\ x.items_json = res.items
                       /\ x.created_at = now
                       /\ is_valid(x, now)
        /\ \A r \in ValidBefore :
              IsRawTextItems(r.items_json, TextResponse.text)
              => /\ gen_calls'[r.meal_type] = 0
                 /\ ResultFor(r.meal_type).cached
                 /\ ResultFor(r.meal_type).items = r.items_json
    ]_vars

====
